---- MODULE Spec2Model ----
(***************************************************************************)
(* The agent execution core of miumono: the tool registry, the bounded     *)
(* short-term memory and the ReAct loop (blocking run() and streaming      *)
(* run_stream()).                                                          *)
(***************************************************************************)
EXTENDS Integers, Sequences, FiniteSets, TLC

(***************************************************************************)
(* Bounds of the model.                                                    *)
(***************************************************************************)
\* largest configured AgentConfig.max_iterations
MaxIterations == 2
\* largest number of content blocks in one provider Response
MaxBlocks == 2

(***************************************************************************)
(* Program constants.                                                      *)
(***************************************************************************)
\* ShortTermMemory(max_messages=100)
DefaultMaxMessages == 100
\* AgentConfig(max_context_tokens=100_000) of the integration fixtures
DefaultMaxContextTokens == 100000
\* truncate_sliding(keep_first=1, keep_last=10)
KeepFirst == 1
KeepLast == 10
\* TOKEN_RATIOS["default"] = 4.0 chars per token
DefaultTokenRatio == 4

VARIABLES
    tools,              \* ToolRegistry._tools: the registered tool names
    memory,             \* ShortTermMemory._messages
    max_iterations,     \* AgentConfig.max_iterations
    pc,                 \* position of the run: idle, provider, tools, returned, raised
    iteration,          \* provider calls of this run that returned
    response,           \* the Response of the current turn
    tool_uses,          \* _execute_tools: the tool uses still to execute
    results,            \* _execute_tools: the ToolResultContent list so far
    returned,           \* the Response run() returned
    fault,              \* the fault that was raised inside run() ("" when none)
    query,              \* the argument of run()
    responses,          \* history: the Responses the provider returned to this run
    appended,           \* history: every Message this run passed to memory.add
    executed,           \* history: the tool uses of the current turn given to the registry
    provider_calls,     \* history: provider calls started by this run
    dropped,            \* history: memory.add or truncate removed a message
    reg,                \* a caller of ToolRegistry: its latest execute call
    collected_text,     \* run_stream: the text of the turn so far
    current_tool,       \* run_stream: the open tool descriptor (<<>> is None)
    tool_input_buffers, \* run_stream: tool id -> accumulated JSON string
    stop_reason,        \* run_stream: the stop reason of the turn
    tool_result,        \* _execute_tools_stream: the ToolResult being reported
    events,             \* history: the provider's events of the current turn
    event_count,        \* history: the provider's events of the whole run
    yielded,            \* history: the events run_stream has yielded
    reference,          \* history: the finished run() a run_stream() is compared with
    max_messages,       \* ShortTermMemory.max_messages
    max_context_tokens, \* AgentConfig.max_context_tokens
    strategy,           \* ShortTermMemory.strategy
    memory_calls,       \* history: calls made on a ShortTermMemory used alone
    reset,              \* history: truncate or clear was called on that memory
    conversation,       \* truncate_*: the message list given
    budget,             \* truncate_*: max_tokens
    window,             \* truncate_sliding: <<keep_first, keep_last>>
    outcome,            \* truncate_*: what one and two applications returned
    fail_fast,          \* OrchestratorConfig.fail_fast
    tasks,              \* Orchestrator._tasks
    orchestrator_pc,    \* Orchestrator.run: idle, running, returned, raised
    orchestrator_fault, \* the fault Orchestrator.run raised ("" when none)
    execution_order,    \* Orchestrator.run: what _topological_sort returned
    position,           \* Orchestrator.run: index of the next task in execution_order
    task_results,       \* Orchestrator.run: results, task name -> TaskResult
    completed,          \* Orchestrator.run: names of the completed tasks
    context,            \* Orchestrator.run: task name -> TaskResult, given to queries
    invoked,            \* history: the agent calls, each with the context its query got
    stop_on_error,      \* PipelineConfig.stop_on_error
    stages,             \* Pipeline._stages
    pipeline_pc,        \* Pipeline.run: idle, running, returned
    initial_query,      \* Pipeline.run: its argument
    stage_index,        \* Pipeline.run: i, the 0-based position of the next stage
    current_query,      \* Pipeline.run: the query the next agent is given
    last_response,      \* Pipeline.run: the latest Response (<<>> is None)
    stage_responses,    \* Pipeline.run: stage name -> Response, in insertion order
    pipeline_result,    \* the PipelineResult run() returned (<<>> before that)
    stage_calls,        \* history: the agent calls, [position, query]
    default_agent,      \* RouterConfig.default_agent (<<>> is None)
    fallback_message,   \* RouterConfig.fallback_message
    routes,             \* Router._routes
    agents,             \* Router._agents: name -> agent
    router_calls,       \* history: the add_route calls made on the Router
    inserted,           \* history: the accepted rules in the order of their add_route calls
    add_call,           \* history: the latest add_route call and whether it raised
    routed,             \* history: the route() call, its outcome and the agents it ran
    looked_up           \* history: the get_route() call and what it returned

vars == <<tools, memory, max_iterations, pc, iteration, response, tool_uses,
          results, returned, fault, query, responses, appended, executed,
          provider_calls, dropped, reg, collected_text, current_tool,
          tool_input_buffers, stop_reason, tool_result, events, event_count,
          yielded, reference, max_messages, max_context_tokens, strategy, memory_calls,
          reset, conversation,
          budget, window, outcome, fail_fast, tasks, orchestrator_pc,
          orchestrator_fault, execution_order, position, task_results, completed,
          context, invoked, stop_on_error, stages, pipeline_pc, initial_query,
          stage_index, current_query, last_response, stage_responses,
          pipeline_result, stage_calls, default_agent, fallback_message, routes,
          agents, router_calls, inserted, add_call, routed, looked_up>>

\* the state of the library parts that are exercised without an agent run
memory_vars == <<max_messages, max_context_tokens, strategy, memory_calls, reset>>

truncation_vars == <<conversation, budget, window, outcome>>

orchestrator_vars == <<fail_fast, tasks, orchestrator_pc, orchestrator_fault,
                       execution_order, position, task_results, completed, context,
                       invoked>>

pipeline_vars == <<stop_on_error, stages, pipeline_pc, initial_query, stage_index,
                   current_query, last_response, stage_responses, pipeline_result,
                   stage_calls>>

router_vars == <<default_agent, fallback_message, routes, agents, router_calls,
                 inserted, add_call, routed, looked_up>>

pattern_vars == <<pipeline_vars, router_vars>>

library_vars == <<memory_vars, truncation_vars, orchestrator_vars, pattern_vars>>

stream_vars == <<collected_text, current_tool, tool_input_buffers, stop_reason,
                 tool_result, events, event_count, yielded, reference>>

(***************************************************************************)
(* Content model (models/messages.py).  A keyword map (dict) is a sequence *)
(* of <<key, value>> pairs in insertion order.                             *)
(***************************************************************************)
TextContent(text) ==
    [type |-> "text", text |-> text, id |-> "", name |-> "", input |-> <<>>,
     tool_use_id |-> "", content |-> "", is_error |-> FALSE]

ToolUseContent(id, name, input) ==
    [type |-> "tool_use", text |-> "", id |-> id, name |-> name, input |-> input,
     tool_use_id |-> "", content |-> "", is_error |-> FALSE]

ToolResultContent(tool_use_id, content, is_error) ==
    [type |-> "tool_result", text |-> "", id |-> "", name |-> "", input |-> <<>>,
     tool_use_id |-> tool_use_id, content |-> content, is_error |-> is_error]

\* Message(role, content): content is a str (isstr, text) or a block list
StrMessage(role, text) ==
    [role |-> role, isstr |-> TRUE, text |-> text, content |-> <<>>]

Message(role, content) ==
    [role |-> role, isstr |-> FALSE, text |-> "", content |-> content]

Response(id, content, reason) ==
    [id |-> id, content |-> content, stop_reason |-> reason]

NoResponse == Response("", <<>>, "")

RECURSIVE SelectBlocks(_, _)
SelectBlocks(content, type) ==
    IF content = <<>> THEN <<>>
    ELSE IF Head(content).type = type
         THEN <<Head(content)>> \o SelectBlocks(Tail(content), type)
         ELSE SelectBlocks(Tail(content), type)

\* Response.get_tool_uses
get_tool_uses(r) == SelectBlocks(r.content, "tool_use")

\* a Python value held in a keyword map: its str() and its repr()
PyStr(x) == [str |-> x, repr |-> "'" \o x \o "'"]
PyInt(digits) == [str |-> digits, repr |-> digits]

ToolResult(output, success, error) ==
    [output |-> output, success |-> success, error |-> error]

Keys(kwargs) == {kwargs[i][1] : i \in 1..Len(kwargs)}

Value(kwargs, key) ==
    LET i == CHOOSE j \in 1..Len(kwargs) : kwargs[j][1] = key IN kwargs[i][2]

(***************************************************************************)
(* Tools of the test suite and the registry (tools/registry.py).           *)
(***************************************************************************)
ToolNames == {"echo", "failing"}

\* the registries an agent is built with: both tools, or echo alone (the
\* model's "failing" is then an unknown tool)
Registries == {ToolNames, {"echo"}}

\* Tool.execute(ctx, **kwargs): [raised, result, message]
ToolExecute(name, kwargs) ==
    IF name = "echo"
    THEN IF "message" \in Keys(kwargs)
         THEN [raised |-> FALSE,
               result |-> ToolResult("Echo: " \o Value(kwargs, "message").str, TRUE, ""),
               message |-> ""]
         ELSE [raised |-> TRUE, result |-> ToolResult("", FALSE, ""),
               message |-> "EchoTool.execute() missing 1 required positional argument: 'message'"]
    ELSE [raised |-> TRUE, result |-> ToolResult("", FALSE, ""),
          message |-> "Intentional failure"]

\* variant: no handler around tool.execute
RegistryExecuteNoCatch(registered, name, kwargs) ==
    IF name \notin registered
    THEN [raised |-> FALSE, called |-> FALSE,
          result |-> ToolResult("Tool not found: " \o name, FALSE,
                                "Unknown tool: " \o name)]
    ELSE LET r == ToolExecute(name, kwargs) IN
         [raised |-> r.raised, called |-> TRUE, result |-> r.result]

\* ToolRegistry.execute(name, ctx, **kwargs): whether the call raised, whether
\* the tool was called, and the ToolResult returned
RegistryExecute(registered, name, kwargs) ==
    IF name \notin registered
    THEN [raised |-> FALSE, called |-> FALSE,
          result |-> ToolResult("Tool not found: " \o name, FALSE,
                                "Unknown tool: " \o name)]
    ELSE LET r == ToolExecute(name, kwargs) IN
         IF r.raised
         THEN [raised |-> FALSE, called |-> TRUE,
               result |-> ToolResult(r.message, FALSE, r.message)]
         ELSE [raised |-> FALSE, called |-> TRUE, result |-> r.result]

\* ToolRegistry.register: last write wins on the name
RegistryRegister(registered, name) == registered \cup {name}

\* Python binds the call execute(name, ctx, **input) before the registry's
\* body runs: a key of the map that names a parameter is a TypeError at the
\* call site
BindingFault(kwargs) == Keys(kwargs) \cap {"self", "name", "ctx"} # {}

(***************************************************************************)
(* Token estimation and truncation (memory/truncation.py).                 *)
(***************************************************************************)
RECURSIVE ReprDict(_)
\* the items of repr(dict): 'k': 'v', ...
ReprDict(kwargs) ==
    IF kwargs = <<>> THEN ""
    ELSE "'" \o Head(kwargs)[1] \o "': " \o Head(kwargs)[2].repr
         \o (IF Tail(kwargs) = <<>> THEN "" ELSE ", " \o ReprDict(Tail(kwargs)))

\* block.text if hasattr(block, "text") else str(block)
BlockText(block) ==
    IF block.type = "text" THEN block.text
    ELSE IF block.type = "tool_use"
    THEN "type='tool_use' id='" \o block.id \o "' name='" \o block.name
         \o "' input={" \o ReprDict(block.input) \o "}"
    ELSE "type='tool_result' tool_use_id='" \o block.tool_use_id \o "' content='"
         \o block.content \o "' is_error="
         \o (IF block.is_error THEN "True" ELSE "False")

RECURSIVE JoinBlocks(_)
\* " ".join(...)
JoinBlocks(content) ==
    IF content = <<>> THEN ""
    ELSE BlockText(Head(content))
         \o (IF Tail(content) = <<>> THEN "" ELSE " " \o JoinBlocks(Tail(content)))

estimate_tokens(message) ==
    LET text == IF message.isstr THEN message.text ELSE JoinBlocks(message.content)
    IN  (Len(text) \div DefaultTokenRatio) + 1

RECURSIVE SumTokens(_)
SumTokens(messages) ==
    IF messages = <<>> THEN 0
    ELSE estimate_tokens(Head(messages)) + SumTokens(Tail(messages))

\* messages[-n:] of Python, n >= 0 (messages[-0:] is the whole list)
LastN(messages, n) ==
    IF n = 0 \/ n >= Len(messages) THEN messages
    ELSE SubSeq(messages, Len(messages) - n + 1, Len(messages))

\* messages[:n] of Python, n >= 0
FirstN(messages, n) ==
    IF n >= Len(messages) THEN messages ELSE SubSeq(messages, 1, n)

RECURSIVE FifoScan(_, _, _, _)
\* the loop over reversed(messages[1:]): i is the index of the message looked
\* at; the result is the index of the oldest message re-admitted (insert(1,
\* msg) puts each one before the later ones) and tokens_kept after the loop
FifoScan(messages, i, tokens_kept, max_tokens) ==
    IF i < 2 THEN [from |-> 2, tokens_kept |-> tokens_kept]
    ELSE IF tokens_kept + estimate_tokens(messages[i]) <= max_tokens
         THEN FifoScan(messages, i - 1, tokens_kept + estimate_tokens(messages[i]),
                       max_tokens)
         ELSE [from |-> i + 1, tokens_kept |-> tokens_kept]

\* variant: the tokens of the first message are not counted
truncate_fifoFirstFree(messages, max_tokens) ==
    IF messages = <<>> THEN <<messages, 0>>
    ELSE IF SumTokens(messages) <= max_tokens THEN <<messages, 0>>
    ELSE LET scan == FifoScan(messages, Len(messages), 0, max_tokens)
             result == <<messages[1]>> \o SubSeq(messages, scan.from, Len(messages))
         IN  <<result, SumTokens(messages) - SumTokens(result)>>

RECURSIVE FifoSkip(_, _, _, _, _)
\* a loop that goes on to the older messages after one that does not fit
FifoSkip(messages, i, tokens_kept, max_tokens, kept) ==
    IF i < 2 THEN [kept |-> kept, tokens_kept |-> tokens_kept]
    ELSE IF tokens_kept + estimate_tokens(messages[i]) <= max_tokens
         THEN FifoSkip(messages, i - 1, tokens_kept + estimate_tokens(messages[i]),
                       max_tokens, <<messages[i]>> \o kept)
         ELSE FifoSkip(messages, i - 1, tokens_kept, max_tokens, kept)

\* variant: a message that does not fit is skipped and older ones are admitted
truncate_fifoSkipping(messages, max_tokens) ==
    IF messages = <<>> THEN <<messages, 0>>
    ELSE IF SumTokens(messages) <= max_tokens THEN <<messages, 0>>
    ELSE LET scan == FifoSkip(messages, Len(messages), estimate_tokens(messages[1]),
                              max_tokens, <<>>)
         IN  <<<<messages[1]>> \o scan.kept, SumTokens(messages) - scan.tokens_kept>>

\* truncate_fifo: <<messages, tokens_removed>>
truncate_fifo(messages, max_tokens) ==
    IF messages = <<>> THEN <<messages, 0>>
    ELSE IF SumTokens(messages) <= max_tokens THEN <<messages, 0>>
    ELSE LET total_tokens == SumTokens(messages)
             scan == FifoScan(messages, Len(messages),
                              estimate_tokens(messages[1]), max_tokens)
             result == <<messages[1]>> \o SubSeq(messages, scan.from, Len(messages))
         IN  <<result, total_tokens - scan.tokens_kept>>

\* truncate_sliding: <<messages, tokens_removed>>
truncate_sliding(messages, max_tokens, keep_first, keep_last) ==
    IF Len(messages) <= keep_first + keep_last THEN <<messages, 0>>
    ELSE LET result == FirstN(messages, keep_first) \o LastN(messages, keep_last)
         IN  <<result, SumTokens(messages) - SumTokens(result)>>

(***************************************************************************)
(* ShortTermMemory (memory/short_term.py).                                 *)
(***************************************************************************)
\* ShortTermMemory.add
MemoryAdd(messages, message, max_n) ==
    LET all == Append(messages, message)
    IN  IF Len(all) > max_n THEN LastN(all, max_n) ELSE all

\* ShortTermMemory.truncate: the new message list
MemoryTruncate(messages, strat, max_tokens) ==
    IF strat = "fifo" THEN truncate_fifo(messages, max_tokens)[1]
    ELSE IF strat = "sliding"
         THEN truncate_sliding(messages, max_tokens, KeepFirst, KeepLast)[1]
         ELSE messages

(***************************************************************************)
(* What the provider may answer.  Tool-use ids are unique within one       *)
(* Response; block order is free.                                          *)
(***************************************************************************)
DefaultStrategy == "fifo"

\* TruncationStrategy
Strategies == {"fifo", "sliding", "summarize"}

Queries == {"go"}

StopReasons == {"end_turn", "tool_use", "max_tokens"}

ToolUseBlocks ==
    { ToolUseContent("t1", "echo", << <<"message", PyStr("hi")>> >>),
      ToolUseContent("t2", "failing", << <<"message", PyStr("x")>> >>),
      ToolUseContent("t3", "echo", << <<"name", PyStr("x")>> >>) }

Blocks == {TextContent("done")} \cup ToolUseBlocks

Distinct(seq) == \A i, j \in DOMAIN seq : i # j => seq[i] # seq[j]

Contents ==
    {c \in UNION {[1..k -> Blocks] : k \in 0..MaxBlocks} : Distinct(c)}

ProviderResponses ==
    {Response("resp", c, s) : c \in Contents, s \in StopReasons}

(***************************************************************************)
(* ReActAgent.run (agents/react.py).                                       *)
(***************************************************************************)
\* the synthetic Response of an exhausted loop
MaxIterationsResponse ==
    Response("max_iterations", <<TextContent("Maximum iterations reached")>>,
             "max_iterations")

\* variant: a tool_use Response is handed back to the caller like end_turn
StopActionReturnsToolUse(reason) ==
    IF reason \in {"end_turn", "tool_use"} THEN "return" ELSE "continue"

\* variant: a tool_use Response is stored but its tools are never run
StopActionSkipsTools(reason) ==
    IF reason = "end_turn" THEN "return" ELSE "continue"

\* what run() does with a Response after storing it
StopAction(reason) ==
    IF reason = "end_turn" THEN "return"
    ELSE IF reason = "tool_use" THEN "tools"
    ELSE "continue"

\* variant: the loop runs one pass too many
LoopNextOffByOne(it) == IF it <= max_iterations THEN "provider" ELSE "returned"

\* for iteration in range(max_iterations): the next provider call, or the
\* end of the loop, after `it` calls
LoopNext(it) == IF it < max_iterations THEN "provider" ELSE "returned"

\* variant: the fault leaves a partial assistant message behind
OnProviderFaultPartial(messages) ==
    [pc |-> "raised", memory |-> Append(messages, Message("assistant", <<>>))]

\* where a fault of provider.complete leaves the run and Memory
OnProviderFault(messages) == [pc |-> "raised", memory |-> messages]

\* the ToolResultContent built from a tool use and the registry's ToolResult
ToolResultBlock(tool_use, result) ==
    ToolResultContent(tool_use.id, result.output, ~result.success)

\* variant: the newest result is put first
CollectResultFront(rs, block) == <<block>> \o rs

\* results.append
CollectResult(rs, block) == Append(rs, block)

\* the end of _execute_tools: the results are stored as one user message
StoreResults(messages, rs) ==
    MemoryAdd(messages, Message("user", rs), max_messages)

NoCall ==
    [calls |-> 0, name |-> "", kwargs |-> <<>>, registered |-> {},
     tool_raised |-> FALSE, tool_message |-> "",
     outcome |-> [raised |-> FALSE, called |-> FALSE, result |-> ToolResult("", TRUE, "")]]

\* a freshly constructed agent that no run has used
\* no truncation was applied
NoOutcome == [op |-> "", once |-> <<>>, removed |-> 0, twice |-> <<>>, removed_twice |-> 0]

TruncationIdle ==
    /\ conversation = <<>>
    /\ budget = 0
    /\ window = <<KeepFirst, KeepLast>>
    /\ outcome = NoOutcome

\* ShortTermMemory(): strategy FIFO, max_messages 100; the agent that owns it
\* truncates to AgentConfig().max_context_tokens
MemoryDefault ==
    /\ max_messages = DefaultMaxMessages
    /\ max_context_tokens = DefaultMaxContextTokens
    /\ strategy = DefaultStrategy
    /\ memory_calls = 0
    /\ reset = FALSE

\* Orchestrator(): fail_fast True, no task
OrchestratorIdle ==
    /\ fail_fast = TRUE
    /\ tasks = <<>>
    /\ orchestrator_pc = "idle"
    /\ orchestrator_fault = ""
    /\ execution_order = <<>>
    /\ position = 1
    /\ task_results = <<>>
    /\ completed = {}
    /\ context = <<>>
    /\ invoked = <<>>

\* Pipeline(): stop_on_error True, no stage
PipelineIdle ==
    /\ stop_on_error = TRUE
    /\ stages = <<>>
    /\ pipeline_pc = "idle"
    /\ initial_query = ""
    /\ stage_index = 0
    /\ current_query = ""
    /\ last_response = <<>>
    /\ stage_responses = <<>>
    /\ pipeline_result = <<>>
    /\ stage_calls = <<>>

\* RouterConfig.fallback_message
DefaultFallbackMessage == "Unable to route request to an appropriate agent."

\* Router(): no default agent, no rule
RouterIdle ==
    /\ default_agent = <<>>
    /\ fallback_message = DefaultFallbackMessage
    /\ routes = <<>>
    /\ agents = <<>>
    /\ router_calls = 0
    /\ inserted = <<>>
    /\ add_call = <<>>
    /\ routed = <<>>
    /\ looked_up = <<>>

PatternsIdle == PipelineIdle /\ RouterIdle

LibraryIdle == MemoryDefault /\ TruncationIdle /\ OrchestratorIdle /\ PatternsIdle

AgentIdle ==
    /\ memory = <<>>
    /\ pc = "idle"
    /\ iteration = 0
    /\ response = NoResponse
    /\ tool_uses = <<>>
    /\ results = <<>>
    /\ returned = NoResponse
    /\ fault = ""
    /\ query = ""
    /\ responses = <<>>
    /\ appended = <<>>
    /\ executed = <<>>
    /\ provider_calls = 0
    /\ dropped = FALSE
    /\ collected_text = ""
    /\ current_tool = <<>>
    /\ tool_input_buffers = <<>>
    /\ stop_reason = "end_turn"
    /\ tool_result = ToolResult("", TRUE, "")
    /\ events = <<>>
    /\ event_count = 0
    /\ yielded = <<>>
    /\ reference = <<>>

Init ==
    /\ tools \in Registries
    /\ max_iterations \in 0..MaxIterations
    /\ reg = NoCall
    /\ AgentIdle
    /\ LibraryIdle

\* run(query) up to the first provider call
Run(q) ==
    /\ pc = "idle"
    /\ LET user == StrMessage("user", q)
           added == MemoryAdd(memory, user, max_messages)
           kept == MemoryTruncate(added, strategy, max_context_tokens)
       IN  /\ memory' = kept
           /\ appended' = <<user>>
           /\ dropped' = (kept # Append(memory, user))
    /\ query' = q
    /\ iteration' = 0
    /\ pc' = LoopNext(0)
    /\ returned' = IF LoopNext(0) = "returned" THEN MaxIterationsResponse ELSE returned
    /\ UNCHANGED <<tools, max_iterations, response, tool_uses, results, fault,
                   responses, executed, provider_calls, reg, stream_vars>>
    /\ UNCHANGED library_vars

\* provider.complete returns r: the assistant message is stored and the
\* stop reason dispatched
ProviderComplete(r) ==
    /\ pc = "provider"
    /\ provider_calls' = provider_calls + 1
    /\ iteration' = iteration + 1
    /\ response' = r
    /\ responses' = Append(responses, r)
    /\ executed' = <<>>
    /\ results' = <<>>
    /\ LET assistant == Message("assistant", r.content)
           added == MemoryAdd(memory, assistant, max_messages)
           uses == get_tool_uses(r)
           act == StopAction(r.stop_reason)
       IN  IF act = "return"
           THEN /\ memory' = added
                /\ appended' = Append(appended, assistant)
                /\ dropped' = (dropped \/ added # Append(memory, assistant))
                /\ tool_uses' = <<>>
                /\ pc' = "returned"
                /\ returned' = r
           ELSE IF act = "tools" /\ uses # <<>>
           THEN /\ memory' = added
                /\ appended' = Append(appended, assistant)
                /\ dropped' = (dropped \/ added # Append(memory, assistant))
                /\ tool_uses' = uses
                /\ pc' = "tools"
                /\ returned' = returned
           ELSE IF act = "tools"
           THEN \* no tool use in the Response: the empty result list is stored
                /\ memory' = StoreResults(added, <<>>)
                /\ appended' = appended \o <<assistant, Message("user", <<>>)>>
                /\ dropped' = (dropped \/ StoreResults(added, <<>>)
                                          # memory \o <<assistant, Message("user", <<>>)>>)
                /\ tool_uses' = <<>>
                /\ pc' = LoopNext(iteration + 1)
                /\ returned' = IF LoopNext(iteration + 1) = "returned"
                               THEN MaxIterationsResponse ELSE returned
           ELSE /\ memory' = added
                /\ appended' = Append(appended, assistant)
                /\ dropped' = (dropped \/ added # Append(memory, assistant))
                /\ tool_uses' = <<>>
                /\ pc' = LoopNext(iteration + 1)
                /\ returned' = IF LoopNext(iteration + 1) = "returned"
                               THEN MaxIterationsResponse ELSE returned
    /\ UNCHANGED <<tools, max_iterations, fault, query, reg, stream_vars>>
    /\ UNCHANGED library_vars

\* provider.complete raises: run() has no handler around the call
ProviderFault ==
    /\ pc = "provider"
    /\ provider_calls' = provider_calls + 1
    /\ fault' = "provider"
    /\ pc' = OnProviderFault(memory).pc
    /\ memory' = OnProviderFault(memory).memory
    /\ UNCHANGED <<tools, max_iterations, iteration, response, tool_uses, results,
                   returned, query, responses, appended, executed, dropped, reg,
                   stream_vars>>
    /\ UNCHANGED library_vars

\* one pass of the loop of _execute_tools: the next tool use of the turn
ExecuteTool ==
    /\ pc = "tools"
    /\ tool_uses # <<>>
    /\ LET tool_use == Head(tool_uses) IN
       IF BindingFault(tool_use.input)
       THEN \* self.tools.execute(tool_use.name, ctx, **tool_use.input) cannot
            \* be bound: the TypeError leaves _execute_tools and run()
            /\ fault' = "TypeError"
            /\ pc' = "raised"
            /\ UNCHANGED <<memory, iteration, tool_uses, results, returned,
                           appended, executed, dropped>>
       ELSE IF RegistryExecute(tools, tool_use.name, tool_use.input).raised
       THEN \* a fault leaving the registry would leave run() as well
            /\ fault' = "tool"
            /\ pc' = "raised"
            /\ executed' = Append(executed, tool_use)
            /\ UNCHANGED <<memory, iteration, tool_uses, results, returned,
                           appended, dropped>>
       ELSE LET result == RegistryExecute(tools, tool_use.name, tool_use.input).result
                rs == CollectResult(results, ToolResultBlock(tool_use, result))
                rest == Tail(tool_uses)
            IN  /\ executed' = Append(executed, tool_use)
                /\ tool_uses' = rest
                /\ results' = rs
                /\ fault' = fault
                /\ iteration' = iteration
                /\ IF rest = <<>>
                   THEN /\ memory' = StoreResults(memory, rs)
                        /\ appended' = Append(appended, Message("user", rs))
                        /\ dropped' = (dropped \/ StoreResults(memory, rs)
                                                  # Append(memory, Message("user", rs)))
                        /\ pc' = LoopNext(iteration)
                        /\ returned' = IF LoopNext(iteration) = "returned"
                                       THEN MaxIterationsResponse ELSE returned
                   ELSE /\ pc' = "tools"
                        /\ UNCHANGED <<memory, appended, dropped, returned>>
    /\ UNCHANGED <<tools, max_iterations, response, query, responses, provider_calls,
                   reg, stream_vars>>
    /\ UNCHANGED library_vars

Next ==
    \/ \E q \in Queries : Run(q)
    \/ \E r \in ProviderResponses : ProviderComplete(r)
    \/ ProviderFault
    \/ ExecuteTool

Spec == Init /\ [][Next]_vars

\* the coroutine is driven to completion and every call it awaits ends
FairSpec == Spec /\ WF_vars(Next)

(***************************************************************************)
(* A caller of the registry alone: tools are registered and executed by    *)
(* name with keyword arguments.                                            *)
(***************************************************************************)
\* largest number of execute calls of the caller
MaxCalls == 2

CallNames == ToolNames \cup {"nosuch"}

\* keyword maps a call execute(name, ctx, **kwargs) can bind
CallKwargs ==
    { <<>>, << <<"message", PyStr("hi")>> >>, << <<"message", PyStr("x")>> >>,
      << <<"other", PyInt("1")>> >> }

InitRegistry ==
    /\ tools = {}
    /\ max_iterations = 0
    /\ reg = NoCall
    /\ AgentIdle
    /\ LibraryIdle

agent_vars == <<memory, max_iterations, pc, iteration, response, tool_uses,
                results, returned, fault, query, responses, appended, executed,
                provider_calls, dropped, stream_vars>>

Register(name) ==
    /\ tools' = RegistryRegister(tools, name)
    /\ tools' # tools
    /\ UNCHANGED <<reg, agent_vars>>
    /\ UNCHANGED library_vars

Execute(name, kwargs) ==
    /\ reg.calls < MaxCalls
    /\ reg' = [calls |-> reg.calls + 1, name |-> name, kwargs |-> kwargs,
               registered |-> tools,
               tool_raised |-> (name \in tools /\ ToolExecute(name, kwargs).raised),
               tool_message |-> IF name \in tools
                                THEN ToolExecute(name, kwargs).message ELSE "",
               outcome |-> RegistryExecute(tools, name, kwargs)]
    /\ UNCHANGED <<tools, agent_vars>>
    /\ UNCHANGED library_vars

NextRegistry ==
    \/ \E name \in ToolNames : Register(name)
    \/ \E name \in CallNames, kwargs \in CallKwargs : Execute(name, kwargs)

SpecRegistry == InitRegistry /\ [][NextRegistry]_vars

(***************************************************************************)
(* Streaming events (models/messages.py) and what a provider may stream.   *)
(***************************************************************************)
\* largest number of events the provider streams during one run_stream()
MaxEvents == 4

\* the preview length of ToolResultEvent.output
PreviewLength == 200

StreamEventOf(type) ==
    [type |-> type, text |-> "", id |-> "", name |-> "", input_delta |-> "",
     stop_reason |-> "", tool_name |-> "", tool_id |-> "", success |-> FALSE,
     output |-> ""]

TextDeltaEvent(text) == [StreamEventOf("text_delta") EXCEPT !.text = text]

ToolUseStartEvent(id, name) ==
    [StreamEventOf("tool_use_start") EXCEPT !.id = id, !.name = name]

ToolUseInputEvent(id, input_delta) ==
    [StreamEventOf("tool_use_input") EXCEPT !.id = id, !.input_delta = input_delta]

MessageStopEvent(reason) ==
    [StreamEventOf("message_stop") EXCEPT !.stop_reason = reason]

ToolExecutingEvent(tool_name, tool_id) ==
    [StreamEventOf("tool_executing") EXCEPT !.tool_name = tool_name,
                                            !.tool_id = tool_id]

ToolResultEvent(tool_name, tool_id, success, output) ==
    [StreamEventOf("tool_result") EXCEPT !.tool_name = tool_name,
        !.tool_id = tool_id, !.success = success, !.output = output]

StreamIds == {"t1", "t2"}

ToolOfId(id) == IF id = "t1" THEN "echo" ELSE "failing"

\* the input_json_delta fragments: {"a":  1}  [1]
Fragments == {"{\"a\":", "1}", "[1]"}

RECURSIVE Repeat(_, _)
\* string * n of Python
Repeat(string, n) == IF n = 0 THEN "" ELSE string \o Repeat(string, n - 1)

\* a message as long as the preview: echoed, the output is longer than it
LongText == Repeat("a", PreviewLength)

\* the arguments {"message": "aa...a"} of echo, sent as one fragment
LongDocument == "{\"message\":\"" \o LongText \o "\"}"

ProviderEvents ==
    {TextDeltaEvent("a")}
    \cup {ToolUseStartEvent(id, ToolOfId(id)) : id \in StreamIds}
    \cup {ToolUseInputEvent(id, f) : id \in StreamIds, f \in Fragments}
    \cup {ToolUseInputEvent("t1", LongDocument)}
    \cup {MessageStopEvent(r) : r \in StopReasons}

\* a parsed JSON value: a dict (its items) or a list
EmptyDict == [t |-> "dict", kv |-> <<>>]

\* json.loads on the concatenations of the fragments: {"a":1}, [1] and
\* LongDocument are the only ones that are JSON documents, every other one
\* is a JSONDecodeError
JsonLoads(string) ==
    IF string = "{\"a\":1}"
    THEN [ok |-> TRUE, value |-> [t |-> "dict", kv |-> << <<"a", PyInt("1")>> >>]]
    ELSE IF string = LongDocument
    THEN [ok |-> TRUE,
          value |-> [t |-> "dict", kv |-> << <<"message", PyStr(LongText)>> >>]]
    ELSE IF string = "[1]"
    THEN [ok |-> TRUE, value |-> [t |-> "list", kv |-> <<>>]]
    ELSE [ok |-> FALSE, value |-> EmptyDict]

\* tool_input_buffers.get(id, "")
BufferGet(buffers, id) == IF id \in DOMAIN buffers THEN buffers[id] ELSE ""

\* tool_input_buffers[id] = string
BufferSet(buffers, id, string) ==
    [k \in DOMAIN buffers \cup {id} |-> IF k = id THEN string ELSE buffers[k]]

\* {"id": event.id, "name": event.name, "input": {}}
Descriptor(id, name) == [id |-> id, name |-> name, input |-> EmptyDict]

\* variant: a string that does not parse leaves the fault uncaught; the
\* descriptor is marked so that building the turn fails
FinalizeNoCatch(tool, buffers) ==
    LET input_json == BufferGet(buffers, tool.id) IN
    IF input_json # ""
    THEN IF JsonLoads(input_json).ok
         THEN [tool EXCEPT !.input = JsonLoads(input_json).value]
         ELSE [tool EXCEPT !.input = [t |-> "fault", kv |-> <<>>]]
    ELSE tool

\* the open descriptor is given its arguments: the parse of its buffer, or
\* the empty map when the buffer is empty or is no JSON
Finalize(tool, buffers) ==
    LET input_json == BufferGet(buffers, tool.id) IN
    IF input_json # ""
    THEN IF JsonLoads(input_json).ok
         THEN [tool EXCEPT !.input = JsonLoads(input_json).value]
         ELSE [tool EXCEPT !.input = EmptyDict]
    ELSE tool

\* pydantic validates ToolUseContent.input as a dict
ValidToolUse(tool) == tool.input.t = "dict"

\* "Build response content for memory"
BuildContent(text, uses) ==
    (IF text # "" THEN <<TextContent(text)>> ELSE <<>>)
    \o [i \in 1..Len(uses) |->
           ToolUseContent(uses[i].id, uses[i].name, uses[i].input.kv)]

\* variant: the event carries the whole output
PreviewWhole(output) == output

\* result.output[:200] if result.output else ""
Preview(output) ==
    IF output = "" THEN ""
    ELSE IF Len(output) <= PreviewLength THEN output
    ELSE SubSeq(output, 1, PreviewLength)

(***************************************************************************)
(* ReActAgent.run_stream and _execute_tools_stream (agents/react.py).      *)
(* pc: stream = waiting for the provider's next event; s_executing =       *)
(* suspended at the yield of ToolExecuting; s_result = suspended at the    *)
(* yield of ToolResult; s_done = the final MessageStop was yielded.        *)
(***************************************************************************)
InitStream ==
    /\ tools = ToolNames
    /\ max_iterations \in 0..MaxIterations
    /\ reg = NoCall
    /\ AgentIdle
    /\ LibraryIdle

\* the head of the loop after `it` passes: a new turn opens the provider's
\* stream, an exhausted loop yields MessageStop(max_iterations)
StreamLoop(it, ys) ==
    IF LoopNext(it) = "provider"
    THEN /\ pc' = "stream"
         /\ collected_text' = ""
         /\ tool_uses' = <<>>
         /\ current_tool' = <<>>
         /\ tool_input_buffers' = <<>>
         /\ stop_reason' = "end_turn"
         /\ events' = <<>>
         /\ provider_calls' = provider_calls + 1
         /\ yielded' = ys
    ELSE /\ pc' = "s_done"
         /\ yielded' = Append(ys, MessageStopEvent("max_iterations"))
         /\ UNCHANGED <<collected_text, tool_uses, current_tool, tool_input_buffers,
                        stop_reason, events, provider_calls>>

\* run_stream(query) up to the first wait for a provider event
RunStream(q) ==
    /\ pc = "idle"
    /\ LET user == StrMessage("user", q)
           added == MemoryAdd(memory, user, max_messages)
           kept == MemoryTruncate(added, strategy, max_context_tokens)
       IN  /\ memory' = kept
           /\ appended' = <<user>>
           /\ dropped' = (kept # Append(memory, user))
    /\ query' = q
    /\ iteration' = 0
    /\ StreamLoop(0, yielded)
    /\ UNCHANGED <<tools, max_iterations, response, results, returned, fault,
                   responses, executed, reg, tool_result, event_count,
                   reference>>
    /\ UNCHANGED library_vars

\* the provider's MessageStop of the turn was received
TurnStopped ==
    IF events = <<>> THEN FALSE ELSE events[Len(events)].type = "message_stop"

\* the provider streams one more event of the turn
StreamEvent(e) ==
    /\ pc = "stream"
    /\ event_count < MaxEvents
    /\ ~TurnStopped
    /\ e.type = "tool_use_start" =>
          \A i \in 1..Len(events) :
              ~(events[i].type = "tool_use_start" /\ events[i].id = e.id)
    /\ events' = Append(events, e)
    /\ event_count' = event_count + 1
    /\ IF e.type = "text_delta"
       THEN /\ collected_text' = collected_text \o e.text
            /\ yielded' = Append(yielded, e)
            /\ UNCHANGED <<tool_uses, current_tool, tool_input_buffers, stop_reason>>
       ELSE IF e.type = "tool_use_start"
       THEN /\ tool_uses' = IF current_tool # <<>>
                            THEN Append(tool_uses,
                                        Finalize(current_tool[1], tool_input_buffers))
                            ELSE tool_uses
            /\ current_tool' = <<Descriptor(e.id, e.name)>>
            /\ tool_input_buffers' = BufferSet(tool_input_buffers, e.id, "")
            /\ yielded' = Append(yielded, e)
            /\ UNCHANGED <<collected_text, stop_reason>>
       ELSE IF e.type = "tool_use_input"
       THEN /\ tool_input_buffers' =
                  BufferSet(tool_input_buffers, e.id,
                            BufferGet(tool_input_buffers, e.id) \o e.input_delta)
            /\ UNCHANGED <<collected_text, tool_uses, current_tool, stop_reason,
                           yielded>>
       ELSE /\ stop_reason' = e.stop_reason
            /\ tool_uses' = IF current_tool # <<>>
                            THEN Append(tool_uses,
                                        Finalize(current_tool[1], tool_input_buffers))
                            ELSE tool_uses
            /\ UNCHANGED <<collected_text, current_tool, tool_input_buffers, yielded>>
    /\ UNCHANGED <<tools, memory, max_iterations, pc, iteration, response, results,
                   returned, fault, query, responses, appended, executed,
                   provider_calls, dropped, reg, tool_result, reference>>
    /\ UNCHANGED library_vars

\* the provider's stream raises
StreamFault ==
    /\ pc = "stream"
    /\ fault' = "provider"
    /\ pc' = OnProviderFault(memory).pc
    /\ memory' = OnProviderFault(memory).memory
    /\ UNCHANGED <<tools, max_iterations, iteration, response, tool_uses, results,
                   returned, query, responses, appended, executed, provider_calls,
                   dropped, reg, stream_vars>>
    /\ UNCHANGED library_vars

\* variant: the cancelled turn is flushed into memory as far as it got
OnStreamCancelFlush(messages, text, uses) ==
    IF BuildContent(text, uses) = <<>> THEN messages
    ELSE Append(messages, Message("assistant", BuildContent(text, uses)))

\* CancelledError (or GeneratorExit) is raised inside the async for: no
\* handler and no finally, the statements after the loop are not reached
OnStreamCancel(messages, text, uses) == messages

\* run_stream is cancelled while it consumes the provider's events
StreamCancel ==
    /\ pc = "stream"
    /\ pc' = "cancelled"
    /\ fault' = "CancelledError"
    /\ memory' = OnStreamCancel(memory, collected_text,
                                IF current_tool # <<>> /\ ~TurnStopped
                                THEN Append(tool_uses, current_tool[1])
                                ELSE tool_uses)
    /\ UNCHANGED <<tools, max_iterations, iteration, response, tool_uses, results,
                   returned, query, responses, appended, executed, provider_calls,
                   dropped, reg, stream_vars>>
    /\ UNCHANGED library_vars

\* the provider's stream is exhausted: the turn is built, stored and
\* dispatched on its stop reason
StreamEnd ==
    /\ pc = "stream"
    /\ IF \E i \in 1..Len(tool_uses) : ~ValidToolUse(tool_uses[i])
       THEN \* ToolUseContent(...) raises ValidationError before memory.add
            /\ fault' = "ValidationError"
            /\ pc' = "raised"
            /\ UNCHANGED <<memory, iteration, tool_uses, results, appended, executed,
                           provider_calls, dropped, stream_vars>>
       ELSE LET content == BuildContent(collected_text, tool_uses)
                assistant == Message("assistant", content)
                added == IF content # <<>>
                         THEN MemoryAdd(memory, assistant, max_messages)
                         ELSE memory
            IN  /\ memory' = added
                /\ appended' = IF content # <<>> THEN Append(appended, assistant)
                               ELSE appended
                /\ dropped' = (dropped \/ (content # <<>>
                                           /\ added # Append(memory, assistant)))
                /\ iteration' = iteration + 1
                /\ fault' = fault
                /\ executed' = <<>>
                /\ results' = <<>>
                /\ UNCHANGED <<tool_result, event_count, reference>>
                /\ IF StopAction(stop_reason) = "return"
                   THEN /\ yielded' = Append(yielded, MessageStopEvent("end_turn"))
                        /\ pc' = "s_done"
                        /\ UNCHANGED <<collected_text, tool_uses, current_tool,
                                       tool_input_buffers, stop_reason, events,
                                       provider_calls>>
                   ELSE IF StopAction(stop_reason) = "tools" /\ tool_uses # <<>>
                   THEN /\ yielded' = Append(yielded,
                               ToolExecutingEvent(tool_uses[1].name, tool_uses[1].id))
                        /\ pc' = "s_executing"
                        /\ UNCHANGED <<collected_text, tool_uses, current_tool,
                                       tool_input_buffers, stop_reason, events,
                                       provider_calls>>
                   ELSE StreamLoop(iteration + 1, yielded)
    /\ UNCHANGED <<tools, max_iterations, response, returned, query, responses, reg>>
    /\ UNCHANGED library_vars

\* resumed after the yield of ToolExecuting: the tool is executed and its
\* ToolResult event yielded
StreamExecuteTool ==
    /\ pc = "s_executing"
    /\ LET tool_use == tool_uses[Len(results) + 1] IN
       IF BindingFault(tool_use.input.kv)
       THEN /\ fault' = "TypeError"
            /\ pc' = "raised"
            /\ UNCHANGED <<executed, tool_result, yielded>>
       ELSE IF RegistryExecute(tools, tool_use.name, tool_use.input.kv).raised
       THEN /\ fault' = "tool"
            /\ pc' = "raised"
            /\ executed' = Append(executed, ToolUseContent(tool_use.id, tool_use.name,
                                                           tool_use.input.kv))
            /\ UNCHANGED <<tool_result, yielded>>
       ELSE LET result == RegistryExecute(tools, tool_use.name, tool_use.input.kv).result
            IN  /\ tool_result' = result
                /\ executed' = Append(executed, ToolUseContent(tool_use.id, tool_use.name,
                                                               tool_use.input.kv))
                /\ yielded' = Append(yielded,
                       ToolResultEvent(tool_use.name, tool_use.id, result.success,
                                       Preview(result.output)))
                /\ pc' = "s_result"
                /\ fault' = fault
    /\ UNCHANGED <<tools, memory, max_iterations, iteration, response, tool_uses, results,
                   returned, query, responses, appended, provider_calls, dropped, reg,
                   collected_text, current_tool, tool_input_buffers, stop_reason,
                   events, event_count, reference>>
    /\ UNCHANGED library_vars

\* resumed after the yield of ToolResult: the result is collected; then the
\* next tool is announced, or the results are stored and the loop goes on
StreamCollect ==
    /\ pc = "s_result"
    /\ LET tool_use == tool_uses[Len(results) + 1]
           rs == CollectResult(results, ToolResultBlock(tool_use, tool_result))
       IN  /\ results' = rs
           /\ IF Len(rs) < Len(tool_uses)
              THEN /\ yielded' = Append(yielded,
                          ToolExecutingEvent(tool_uses[Len(rs) + 1].name,
                                             tool_uses[Len(rs) + 1].id))
                   /\ pc' = "s_executing"
                   /\ UNCHANGED <<memory, appended, dropped, collected_text, tool_uses,
                                  current_tool, tool_input_buffers, stop_reason, events,
                                  provider_calls>>
              ELSE /\ memory' = StoreResults(memory, rs)
                   /\ appended' = Append(appended, Message("user", rs))
                   /\ dropped' = (dropped \/ StoreResults(memory, rs)
                                             # Append(memory, Message("user", rs)))
                   /\ StreamLoop(iteration, yielded)
    /\ UNCHANGED <<tools, max_iterations, iteration, response, returned, fault, query,
                   responses, executed, reg, tool_result, event_count,
                   reference>>
    /\ UNCHANGED library_vars

NextStream ==
    \/ \E q \in Queries : RunStream(q)
    \/ \E e \in ProviderEvents : StreamEvent(e)
    \/ StreamFault
    \/ StreamCancel
    \/ StreamEnd
    \/ StreamExecuteTool
    \/ StreamCollect

SpecStream == InitStream /\ [][NextStream]_vars

\* the generator is iterated to its end and every stream and call it awaits ends
FairSpecStream == SpecStream /\ WF_vars(NextStream)

\* the consumer stops iterating at the yield of ToolExecuting or ToolResult
\* (tui/app.py breaks out of its "async for"; a task is cancelled): the
\* generator is closed at that yield, and no handler of run_stream() or of
\* _execute_tools_stream() runs, so the Memory stays as the turn left it
StreamAbandon ==
    /\ pc \in {"s_executing", "s_result"}
    /\ pc' = "abandoned"
    /\ fault' = "GeneratorExit"
    /\ UNCHANGED <<tools, memory, max_iterations, iteration, response, tool_uses, results,
                   returned, query, responses, appended, executed, provider_calls,
                   dropped, reg, stream_vars>>
    /\ UNCHANGED library_vars

NextAbandoned ==
    \/ \E q \in Queries : RunStream(q)
    \/ \E e \in ProviderEvents : StreamEvent(e)
    \/ StreamFault
    \/ StreamCancel
    \/ StreamEnd
    \/ StreamExecuteTool
    \/ StreamCollect
    \/ StreamAbandon

\* run_stream() with a consumer that may stop at any yield
SpecAbandoned == InitStream /\ [][NextAbandoned]_vars

(***************************************************************************)
(* One agent used for several run() calls (agents/react.py): its Memory    *)
(* is a ShortTermMemory constructed with a strategy and a cap, its         *)
(* AgentConfig carries max_iterations and max_context_tokens.              *)
(***************************************************************************)
\* a further run() starts only while the Memory holds fewer messages
MaxSession == 5

SessionQueries == {"go", "tell me more"}

\* ShortTermMemory(max_messages=...)
SessionCaps == {1, 3, DefaultMaxMessages}

\* AgentConfig(max_context_tokens=...)
SessionBudgets == {4, 24, DefaultMaxContextTokens}

\* what the provider answers in a session
SessionResponses ==
    { Response("resp", <<TextContent("done")>>, "end_turn"),
      Response("resp", <<TextContent("done")>>, "max_tokens"),
      Response("resp", <<ToolUseContent("t1", "echo", << <<"message", PyStr("hi")>> >>)>>,
               "tool_use") }

InitSession ==
    /\ tools \in Registries
    /\ max_iterations \in 0..MaxIterations
    /\ reg = NoCall
    /\ AgentIdle
    /\ TruncationIdle
    /\ OrchestratorIdle
    /\ PatternsIdle
    /\ max_messages \in SessionCaps
    /\ max_context_tokens \in SessionBudgets
    /\ strategy \in Strategies
    /\ memory_calls = 0
    /\ reset = FALSE

\* run(query) on an agent whose previous run() returned: the Memory is the
\* one that run left; `dropped` goes on recording whether any add or truncate
\* of the session removed a message
RunAgain(q) ==
    /\ pc = "returned"
    /\ Len(memory) < MaxSession
    /\ LET user == StrMessage("user", q)
           added == MemoryAdd(memory, user, max_messages)
           kept == MemoryTruncate(added, strategy, max_context_tokens)
       IN  /\ memory' = kept
           /\ appended' = <<user>>
           /\ dropped' = (dropped \/ kept # Append(memory, user))
    /\ query' = q
    /\ iteration' = 0
    /\ pc' = LoopNext(0)
    /\ returned' = IF LoopNext(0) = "returned" THEN MaxIterationsResponse ELSE NoResponse
    /\ response' = NoResponse
    /\ tool_uses' = <<>>
    /\ results' = <<>>
    /\ responses' = <<>>
    /\ executed' = <<>>
    /\ provider_calls' = 0
    /\ UNCHANGED <<tools, max_iterations, fault, reg, stream_vars>>
    /\ UNCHANGED library_vars

NextSession ==
    \/ \E q \in SessionQueries : Run(q)
    \/ \E q \in SessionQueries : RunAgain(q)
    \/ \E r \in SessionResponses : ProviderComplete(r)
    \/ ProviderFault
    \/ ExecuteTool

SpecSession == InitSession /\ [][NextSession]_vars

(***************************************************************************)
(* run() and run_stream() side by side: an agent runs a query; a second    *)
(* agent of the same configuration then streams the same query from a      *)
(* provider whose stream of turn k renders the Response that complete()    *)
(* returned in turn k (providers/anthropic.py).                            *)
(***************************************************************************)
\* the content blocks the provider answers with in the comparison
ComparedBlocks ==
    { TextContent("a"),
      ToolUseContent("t1", "echo", << <<"a", PyInt("1")>> >>),
      ToolUseContent("t2", "failing", << <<"a", PyInt("1")>> >>) }

ComparedResponses ==
    {Response("resp", c, s) :
        c \in {d \in UNION {[1..k -> ComparedBlocks] : k \in 0..MaxBlocks} :
                  Distinct(d)},
        s \in StopReasons}

\* the partial_json text the provider streams for the input of a tool use
PartialJson(input) ==
    IF input = << <<"a", PyInt("1")>> >> THEN "{\"a\":1}"
    ELSE IF input = << <<"message", PyStr(LongText)>> >> THEN LongDocument
    ELSE "{}"

\* the events of one content block: a text block is a text_delta, a
\* tool_use block a content_block_start followed by its input_json_delta
RenderBlock(block) ==
    IF block.type = "text" THEN <<TextDeltaEvent(block.text)>>
    ELSE <<ToolUseStartEvent(block.id, block.name),
           ToolUseInputEvent(block.id, PartialJson(block.input))>>

RECURSIVE RenderBlocks(_)
RenderBlocks(content) ==
    IF content = <<>> THEN <<>>
    ELSE RenderBlock(Head(content)) \o RenderBlocks(Tail(content))

\* the stream of a turn: the blocks in the order of Response.content, then
\* message_stop with the Response's stop_reason
Render(r) == Append(RenderBlocks(r.content), MessageStopEvent(r.stop_reason))

InitCompared ==
    /\ tools = ToolNames
    /\ max_iterations \in 0..MaxIterations
    /\ reg = NoCall
    /\ AgentIdle
    /\ LibraryIdle

\* run() has returned: what it left is kept, and a second agent is
\* constructed with an empty Memory, the same tools and the same settings
SecondAgent ==
    /\ pc = "returned"
    /\ reference = <<>>
    /\ reference' = <<[query |-> query, memory |-> memory,
                       appended |-> appended, responses |-> responses,
                       stop_reason |-> returned.stop_reason]>>
    /\ memory' = <<>>
    /\ pc' = "idle"
    /\ iteration' = 0
    /\ response' = NoResponse
    /\ tool_uses' = <<>>
    /\ results' = <<>>
    /\ returned' = NoResponse
    /\ fault' = ""
    /\ query' = ""
    /\ responses' = <<>>
    /\ appended' = <<>>
    /\ executed' = <<>>
    /\ provider_calls' = 0
    /\ dropped' = FALSE
    /\ UNCHANGED <<tools, max_iterations, reg, collected_text, current_tool,
                   tool_input_buffers, stop_reason, tool_result, events,
                   event_count, yielded>>
    /\ UNCHANGED library_vars

\* the events the provider streams in the open turn of the second agent
TurnEvents ==
    IF reference # <<>> /\ iteration + 1 <= Len(reference[1].responses)
    THEN Render(reference[1].responses[iteration + 1])
    ELSE <<>>

\* the provider streams the next event of the turn
StreamRendered ==
    /\ reference # <<>>
    /\ Len(events) < Len(TurnEvents)
    /\ StreamEvent(TurnEvents[Len(events) + 1])

\* the provider's stream is exhausted after its message_stop
StreamRenderedEnd ==
    /\ reference # <<>>
    /\ Len(events) = Len(TurnEvents)
    /\ StreamEnd

\* the first agent is given the query
RunFirst(q) ==
    /\ reference = <<>>
    /\ Run(q)

\* the second agent is given the query of the first
RunStreamSecond(q) ==
    /\ reference # <<>>
    /\ q = reference[1].query
    /\ RunStream(q)

NextCompared ==
    \/ \E q \in Queries : RunFirst(q)
    \/ \E r \in ComparedResponses : ProviderComplete(r)
    \/ ExecuteTool
    \/ SecondAgent
    \/ \E q \in Queries : RunStreamSecond(q)
    \/ StreamRendered
    \/ StreamRenderedEnd
    \/ StreamExecuteTool
    \/ StreamCollect

SpecCompared == InitCompared /\ [][NextCompared]_vars

(***************************************************************************)
(* The truncation functions applied to a message list                      *)
(* (memory/truncation.py): once, and once more to what the first           *)
(* application returned.                                                   *)
(***************************************************************************)
\* longest message list given
MaxMessages == 4

\* largest token budget given
MaxBudget == 6

\* largest keep_first and keep_last given
MaxKeep == 2

\* messages of 1, 2 and 3 estimated tokens
TruncationMessages ==
    {StrMessage("user", ""), StrMessage("assistant", "aaaa"),
     StrMessage("user", "aaaaaaaa")}

MessageLists == UNION {[1..n -> TruncationMessages] : n \in 0..MaxMessages}

InitTruncation ==
    /\ tools = {}
    /\ max_iterations = 0
    /\ reg = NoCall
    /\ AgentIdle
    /\ MemoryDefault
    /\ OrchestratorIdle
    /\ PatternsIdle
    /\ conversation \in MessageLists
    /\ budget \in 0..MaxBudget
    /\ window \in (0..MaxKeep) \X (0..MaxKeep)
    /\ outcome = NoOutcome

\* what two successive applications return
Applied(op, once, twice) ==
    [op |-> op, once |-> once[1], removed |-> once[2],
     twice |-> twice[1], removed_twice |-> twice[2]]

TruncateFifo ==
    /\ outcome = NoOutcome
    /\ outcome' = Applied("fifo", truncate_fifo(conversation, budget),
                          truncate_fifo(truncate_fifo(conversation, budget)[1], budget))
    /\ UNCHANGED <<tools, reg, agent_vars, memory_vars, orchestrator_vars,
                   pattern_vars, conversation, budget, window>>

TruncateSliding ==
    /\ outcome = NoOutcome
    /\ outcome' =
          Applied("sliding",
                  truncate_sliding(conversation, budget, window[1], window[2]),
                  truncate_sliding(
                      truncate_sliding(conversation, budget, window[1], window[2])[1],
                      budget, window[1], window[2]))
    /\ UNCHANGED <<tools, reg, agent_vars, memory_vars, orchestrator_vars,
                   pattern_vars, conversation, budget, window>>

NextTruncation == TruncateFifo \/ TruncateSliding

SpecTruncation == InitTruncation /\ [][NextTruncation]_vars

(***************************************************************************)
(* A ShortTermMemory used alone (memory/short_term.py): constructed with   *)
(* a strategy and a cap, then add, truncate and clear are called.          *)
(***************************************************************************)
\* largest max_messages a memory is constructed with
MaxCap == 2

\* most calls made on the memory
MaxMemoryCalls == 4

InitMemory ==
    /\ tools = {}
    /\ max_iterations = 0
    /\ reg = NoCall
    /\ AgentIdle
    /\ TruncationIdle
    /\ OrchestratorIdle
    /\ PatternsIdle
    /\ max_messages \in 0..MaxCap
    /\ max_context_tokens = DefaultMaxContextTokens
    /\ strategy \in Strategies
    /\ memory_calls = 0
    /\ reset = FALSE

memory_idle == <<tools, max_iterations, pc, iteration, response, tool_uses,
                 results, returned, fault, query, responses, executed,
                 provider_calls, dropped, reg, stream_vars, truncation_vars,
                 orchestrator_vars, pattern_vars, max_messages, max_context_tokens,
                 strategy>>

\* ShortTermMemory.add(message)
Add(message) ==
    /\ memory_calls < MaxMemoryCalls
    /\ memory_calls' = memory_calls + 1
    /\ memory' = MemoryAdd(memory, message, max_messages)
    /\ appended' = Append(appended, message)
    /\ UNCHANGED <<reset, memory_idle>>

\* ShortTermMemory.truncate(max_tokens)
Truncate(max_tokens) ==
    /\ memory_calls < MaxMemoryCalls
    /\ memory_calls' = memory_calls + 1
    /\ memory' = MemoryTruncate(memory, strategy, max_tokens)
    /\ reset' = TRUE
    /\ UNCHANGED <<appended, memory_idle>>

\* ShortTermMemory.clear()
Clear ==
    /\ memory_calls < MaxMemoryCalls
    /\ memory_calls' = memory_calls + 1
    /\ memory' = <<>>
    /\ reset' = TRUE
    /\ UNCHANGED <<appended, memory_idle>>

NextMemory ==
    \/ \E message \in TruncationMessages : Add(message)
    \/ \E max_tokens \in 0..MaxBudget : Truncate(max_tokens)
    \/ Clear

SpecMemory == InitMemory /\ [][NextMemory]_vars

(***************************************************************************)
(* Orchestrator (patterns/orchestrator.py). Agents are those of the test   *)
(* suite: one that answers, one that raises RuntimeError("Agent failed").  *)
(* Every query is taken as a function of the context map.                  *)
(***************************************************************************)
\* most entries of a task's depends_on
MaxDeps == 2

\* the names tasks are added under, in a fixed order
NameOrder == <<"A", "B", "C">>

TaskNames == {NameOrder[i] : i \in 1..Len(NameOrder)}

AgentKinds == {"mock", "failing"}

Task(name, agent, depends_on) ==
    [name |-> name, agent |-> agent, depends_on |-> depends_on]

TaskResult(agent_name, success, task_response, error) ==
    [agent_name |-> agent_name, success |-> success, response |-> task_response,
     error |-> error]

\* depends_on lists: names without repetition, in the fixed order
DependsOnLists ==
    {d \in UNION {[1..n -> TaskNames] : n \in 0..MaxDeps} :
        \A i, j \in 1..Len(d) :
            i < j => \E a, b \in 1..Len(NameOrder) :
                        a < b /\ NameOrder[a] = d[i] /\ NameOrder[b] = d[j]}

\* the task lists add_task can build: distinct names in any order
TaskLists ==
    {ts \in UNION {[1..n -> [name : TaskNames, agent : AgentKinds,
                             depends_on : DependsOnLists]] : n \in 0..Len(NameOrder)} :
        \A i, j \in 1..Len(ts) : i # j => ts[i].name # ts[j].name}

NamesOf(ts) == {ts[i].name : i \in 1..Len(ts)}

\* task_map[name]
TaskByName(ts, name) == ts[CHOOSE i \in 1..Len(ts) : ts[i].name = name]

\* map[key] = value
SetItem(map, key, value) ==
    [k \in DOMAIN map \cup {key} |-> IF k = key THEN value ELSE map[k]]

\* in_degree[name] after the graph is built: the dependencies that are tasks
InDegree(ts, name) ==
    LET deps == TaskByName(ts, name).depends_on
    IN  Cardinality({j \in 1..Len(deps) : deps[j] \in NamesOf(ts)})

\* graph[dep]: the names of its dependents, in task order
Dependents(ts, dep) ==
    LET DependsOnIt(t) == \E j \in 1..Len(t.depends_on) : t.depends_on[j] = dep
        selected == SelectSeq(ts, DependsOnIt)
    IN  [i \in 1..Len(selected) |-> selected[i].name]

RECURSIVE KahnLoop(_, _, _, _)
\* while queue: pop(0), append to result, release the dependents
KahnLoop(ts, queue, result, in_degree) ==
    IF queue = <<>> THEN result
    ELSE LET current == Head(queue)
             dependents == Dependents(ts, current)
             released == {dependents[i] : i \in 1..Len(dependents)}
             degree == [n \in DOMAIN in_degree |->
                           IF n \in released THEN in_degree[n] - 1 ELSE in_degree[n]]
             IsFree(n) == degree[n] = 0
         IN  KahnLoop(ts, Tail(queue) \o SelectSeq(dependents, IsFree),
                      Append(result, current), degree)

\* the tasks with no dependency among the tasks, in task order
InitialQueue(ts) ==
    LET NoDependency(t) == InDegree(ts, t.name) = 0
        selected == SelectSeq(ts, NoDependency)
    IN  [i \in 1..Len(selected) |-> selected[i].name]

\* variant: a cycle is not reported, what could be sorted is returned
topological_sortNoCycleCheck(ts) ==
    [raised |-> FALSE,
     order |-> KahnLoop(ts, InitialQueue(ts), <<>>,
                        [n \in NamesOf(ts) |-> InDegree(ts, n)])]

\* Orchestrator._topological_sort: raises ValueError on a cycle
topological_sort(ts) ==
    LET result == KahnLoop(ts, InitialQueue(ts), <<>>,
                           [n \in NamesOf(ts) |-> InDegree(ts, n)])
    IN  [raised |-> Len(result) # Cardinality(NamesOf(ts)), order |-> result]

RECURSIVE CheckDependencies(_, _, _, _, _)
\* "Check dependencies are satisfied": the for loop over task.depends_on;
\* its continue goes on with the next dependency
CheckDependencies(deps, task_name, rs, done, ff) ==
    IF deps = <<>> THEN [raised |-> FALSE, dep |-> "", results |-> rs]
    ELSE IF Head(deps) \notin done
    THEN [raised |-> TRUE, dep |-> Head(deps), results |-> rs]
    ELSE IF ff /\ ~rs[Head(deps)].success
    THEN CheckDependencies(Tail(deps), task_name,
             SetItem(rs, task_name,
                     TaskResult(task_name, FALSE, NoResponse,
                                "Dependency '" \o Head(deps) \o "' failed")),
             done, ff)
    ELSE CheckDependencies(Tail(deps), task_name, rs, done, ff)

\* task.agent.run(query): the TaskResult built from what the agent did
AgentRun(task) ==
    IF task.agent = "mock"
    THEN TaskResult(task.name, TRUE,
                    Response("r-" \o task.name, <<TextContent("mock response")>>,
                             "end_turn"),
                    "")
    ELSE TaskResult(task.name, FALSE, NoResponse, "Agent failed")

\* variant: a failed agent call never ends the loop
LeavesLoopNever(result, ff) == FALSE

\* variant: a failed agent call ends the loop whatever the configuration says
LeavesLoopAlways(result, ff) == ~result.success

\* in the except branch: if self.config.fail_fast: ... break
LeavesLoop(result, ff) == ~result.success /\ ff

\* variant: the result is kept out of the context map
UpdateContextSkip(ctx, task_name, result) == ctx

\* context[task_name] = result
UpdateContext(ctx, task_name, result) == SetItem(ctx, task_name, result)

InitOrchestrator ==
    /\ tools = {}
    /\ max_iterations = 0
    /\ reg = NoCall
    /\ AgentIdle
    /\ MemoryDefault
    /\ TruncationIdle
    /\ PatternsIdle
    /\ fail_fast \in BOOLEAN
    /\ tasks \in TaskLists
    /\ orchestrator_pc = "idle"
    /\ orchestrator_fault = ""
    /\ execution_order = <<>>
    /\ position = 1
    /\ task_results = <<>>
    /\ completed = {}
    /\ context = <<>>
    /\ invoked = <<>>

orchestrator_idle == <<tools, reg, agent_vars, memory_vars, truncation_vars,
                       pattern_vars, fail_fast, tasks>>

\* Orchestrator.run() up to the loop over execution_order
OrchestratorRun ==
    /\ orchestrator_pc = "idle"
    /\ IF topological_sort(tasks).raised
       THEN /\ orchestrator_pc' = "raised"
            /\ orchestrator_fault' = "ValueError: Circular dependency detected in tasks"
            /\ UNCHANGED execution_order
       ELSE /\ execution_order' = topological_sort(tasks).order
            /\ orchestrator_pc' = IF topological_sort(tasks).order = <<>>
                                  THEN "returned" ELSE "running"
            /\ UNCHANGED orchestrator_fault
    /\ UNCHANGED <<position, task_results, completed, context, invoked,
                   orchestrator_idle>>

\* one pass of the loop over execution_order, and the return when it was
\* the last one or the loop was left by break
TaskStep ==
    /\ orchestrator_pc = "running"
    /\ LET task_name == execution_order[position]
           task == TaskByName(tasks, task_name)
           checked == CheckDependencies(task.depends_on, task_name, task_results,
                                        completed, fail_fast)
           result == AgentRun(task)
           last == position = Len(execution_order)
       IN  IF checked.raised
           THEN /\ orchestrator_pc' = "raised"
                /\ orchestrator_fault' = "RuntimeError: Dependency '" \o checked.dep
                                         \o "' not satisfied for '" \o task_name \o "'"
                /\ task_results' = checked.results
                /\ UNCHANGED <<position, completed, context, invoked>>
           ELSE /\ invoked' = Append(invoked, [task |-> task_name, context |-> context])
                /\ task_results' = SetItem(checked.results, task_name, result)
                /\ UNCHANGED orchestrator_fault
                /\ IF LeavesLoop(result, fail_fast)
                   THEN /\ orchestrator_pc' = "returned"
                        /\ UNCHANGED <<position, completed, context>>
                   ELSE /\ context' = UpdateContext(context, task_name, result)
                        /\ completed' = completed \cup {task_name}
                        /\ position' = position + 1
                        /\ orchestrator_pc' = IF last THEN "returned" ELSE "running"
    /\ UNCHANGED <<execution_order, orchestrator_idle>>

NextOrchestrator == OrchestratorRun \/ TaskStep

SpecOrchestrator == InitOrchestrator /\ [][NextOrchestrator]_vars

(***************************************************************************)
(* Pipeline (patterns/pipeline.py). Agents are those of the test suite;    *)
(* a stage has no transform or the one of test_transform_function.         *)
(***************************************************************************)
\* most stages added to a pipeline
MaxStages == 3

\* MockAgent.run shows query[:50] in its answer
QueryShown == 50

StageNames == {"s1", "s2", "s3"}

Transforms == {"None", "TRANSFORM"}

PipelineStage(name, agent, transform) ==
    [name |-> name, agent |-> agent, transform |-> transform]

PipelineResult(success, completed_count, final, by_stage, error, failed_stage) ==
    [success |-> success, stages_completed |-> completed_count,
     final_response |-> final, stage_responses |-> by_stage,
     error |-> error, failed_stage |-> failed_stage]

\* what add_stage can build: any names, the same name may be used again
StageLists ==
    UNION {[1..n -> [name : StageNames, agent : AgentKinds, transform : Transforms]] :
              n \in 0..MaxStages}

RECURSIVE JoinLines(_)
\* "\n".join(texts)
JoinLines(texts) ==
    IF texts = <<>> THEN ""
    ELSE IF Len(texts) = 1 THEN texts[1]
    ELSE texts[1] \o "\n" \o JoinLines(Tail(texts))

\* Response.get_text()
get_text(r) ==
    LET blocks == SelectBlocks(r.content, "text")
    IN  JoinLines([i \in 1..Len(blocks) |-> blocks[i].text])

\* string[:n]
Prefix(string, n) == IF Len(string) <= n THEN string ELSE SubSeq(string, 1, n)

\* agent.run(query) of MockAgent and of FailingAgent: [raised, response, message]
MockAgentRun(agent, q) ==
    IF agent = "mock"
    THEN [raised |-> FALSE,
          response |-> Response("uuid",
                                <<TextContent("mock response: " \o Prefix(q, QueryShown))>>,
                                "end_turn"),
          message |-> ""]
    ELSE [raised |-> TRUE, response |-> NoResponse, message |-> "Agent failed"]

\* lambda q, r: f"TRANSFORM: {r.get_text()}"
Transform(name, q, r) == "TRANSFORM: " \o get_text(r)

\* "Transform query if transformer provided and not first stage"
StageQuery(stage, initial, current, last) ==
    IF stage.transform # "None" /\ last # <<>>
    THEN Transform(stage.transform, initial, last[1])
    ELSE current

\* variant: the failed stage is counted as completed
OnStageFaultCounted(stop, i, stage, last, by_stage, message) ==
    IF stop
    THEN [returns |-> TRUE,
          result |-> PipelineResult(FALSE, i + 1, last, by_stage, <<message>>,
                                    <<stage.name>>)]
    ELSE [returns |-> FALSE, result |-> <<>>]

\* variant: the pipeline stops at a fault whatever the configuration says
OnStageFaultAlwaysStops(stop, i, stage, last, by_stage, message) ==
    [returns |-> TRUE,
     result |-> PipelineResult(FALSE, i, last, by_stage, <<message>>, <<stage.name>>)]

\* except Exception as e: return the failure when stop_on_error, else continue
OnStageFault(stop, i, stage, last, by_stage, message) ==
    IF stop
    THEN [returns |-> TRUE,
          result |-> PipelineResult(FALSE, i, last, by_stage, <<message>>,
                                    <<stage.name>>)]
    ELSE [returns |-> FALSE, result |-> <<>>]

\* the return after the loop
Completed(ss, last, by_stage) ==
    PipelineResult(TRUE, Len(ss), last, by_stage, <<>>, <<>>)

InitPipeline ==
    /\ tools = {}
    /\ max_iterations = 0
    /\ reg = NoCall
    /\ AgentIdle
    /\ MemoryDefault
    /\ TruncationIdle
    /\ OrchestratorIdle
    /\ RouterIdle
    /\ stop_on_error \in BOOLEAN
    /\ stages \in StageLists
    /\ pipeline_pc = "idle"
    /\ initial_query = ""
    /\ stage_index = 0
    /\ current_query = ""
    /\ last_response = <<>>
    /\ stage_responses = <<>>
    /\ pipeline_result = <<>>
    /\ stage_calls = <<>>

pipeline_idle == <<tools, reg, agent_vars, memory_vars, truncation_vars,
                   orchestrator_vars, router_vars, stop_on_error, stages>>

\* Pipeline.run(initial_query) up to the loop over the stages
PipelineRun(q) ==
    /\ pipeline_pc = "idle"
    /\ initial_query' = q
    /\ current_query' = q
    /\ last_response' = <<>>
    /\ stage_responses' = <<>>
    /\ stage_index' = 0
    /\ IF stages = <<>>
       THEN /\ pipeline_pc' = "returned"
            /\ pipeline_result' = <<Completed(stages, <<>>, <<>>)>>
       ELSE /\ pipeline_pc' = "running"
            /\ UNCHANGED pipeline_result
    /\ UNCHANGED <<stage_calls, pipeline_idle>>

\* one pass of the loop over the stages, and the return when it was the
\* last one or the pipeline stops at the fault
StageStep ==
    /\ pipeline_pc = "running"
    /\ LET stage == stages[stage_index + 1]
           q == StageQuery(stage, initial_query, current_query, last_response)
           ran == MockAgentRun(stage.agent, q)
           last == stage_index + 1 = Len(stages)
           by_stage == SetItem(stage_responses, stage.name, ran.response)
           handled == OnStageFault(stop_on_error, stage_index, stage, last_response,
                                   stage_responses, ran.message)
       IN  /\ stage_calls' = Append(stage_calls, [position |-> stage_index, query |-> q])
           /\ IF ~ran.raised
              THEN /\ stage_responses' = by_stage
                   /\ last_response' = <<ran.response>>
                   /\ current_query' = get_text(ran.response)
                   /\ stage_index' = stage_index + 1
                   /\ pipeline_pc' = IF last THEN "returned" ELSE "running"
                   /\ pipeline_result' =
                         IF last THEN <<Completed(stages, <<ran.response>>, by_stage)>>
                         ELSE pipeline_result
              ELSE IF handled.returns
              THEN /\ current_query' = q
                   /\ pipeline_pc' = "returned"
                   /\ pipeline_result' = <<handled.result>>
                   /\ UNCHANGED <<stage_responses, last_response, stage_index>>
              ELSE /\ current_query' = q
                   /\ stage_index' = stage_index + 1
                   /\ pipeline_pc' = IF last THEN "returned" ELSE "running"
                   /\ pipeline_result' =
                         IF last
                         THEN <<Completed(stages, last_response, stage_responses)>>
                         ELSE pipeline_result
                   /\ UNCHANGED <<stage_responses, last_response>>
    /\ UNCHANGED <<initial_query, pipeline_idle>>

NextPipeline ==
    \/ \E q \in {"start"} : PipelineRun(q)
    \/ StageStep

SpecPipeline == InitPipeline /\ [][NextPipeline]_vars

(***************************************************************************)
(* Router (patterns/routing.py). The agents are one MockAgent and one      *)
(* FailingAgent; keywords and patterns are words without regex operators.  *)
(* An optional argument is <<>> (None) or <<value>>.                       *)
(***************************************************************************)
\* most add_route calls made on a router
MaxRoutes == 2

RouteNames == {"a", "b"}

Priorities == {0, 10}

RouterQueries == {"debug Code", "essay"}

KeywordLists == {<<"code">>}

Patterns == {"ESSAY"}

\* lambda q: True
Conditions == {"always"}

Optional(values) == {<<>>} \cup {<<v>> : v \in values}

\* the predicate sources a call gives: none, one of the three, or keywords
\* together with a pattern
PredicateSources ==
    {given \in [keywords : Optional(KeywordLists), pattern : Optional(Patterns),
                condition : Optional(Conditions)] :
        given.condition # <<>> => (given.keywords = <<>> /\ given.pattern = <<>>)}

UpperLetters == "ABCDEFGHIJKLMNOPQRSTUVWXYZ"

LowerLetters == "abcdefghijklmnopqrstuvwxyz"

\* the lower-case letter of every upper-case letter
LowerTable ==
    [c \in {SubSeq(UpperLetters, i, i) : i \in 1..Len(UpperLetters)} |->
        LET i == CHOOSE j \in 1..Len(UpperLetters) : SubSeq(UpperLetters, j, j) = c
        IN  SubSeq(LowerLetters, i, i)]

LowerChar(c) == IF c \in DOMAIN LowerTable THEN LowerTable[c] ELSE c

RECURSIVE Lower(_)
\* str.lower()
Lower(string) ==
    IF string = "" THEN ""
    ELSE LowerChar(SubSeq(string, 1, 1)) \o Lower(SubSeq(string, 2, Len(string)))

\* `word in string`
Contains(string, word) ==
    \E i \in 1..(Len(string) + 1) :
        /\ i + Len(word) - 1 <= Len(string)
        /\ SubSeq(string, i, i + Len(word) - 1) = word

\* _make_keyword_condition(keywords)(query)
KeywordCondition(keywords, q) ==
    LET kw_lower == [i \in 1..Len(keywords) |-> Lower(keywords[i])]
        query_lower == Lower(q)
    IN  \E i \in 1..Len(kw_lower) : Contains(query_lower, kw_lower[i])

\* _make_pattern_condition(pattern)(query), the pattern being a plain word:
\* re.IGNORECASE search
PatternCondition(pattern, q) ==
    LET pattern_lower == Lower(pattern)
        query_lower == Lower(q)
    IN  Contains(query_lower, pattern_lower)

\* rule.condition(query)
Matches(rule, q) ==
    IF rule.condition.source = "keywords" THEN KeywordCondition(rule.condition.by, q)
    ELSE IF rule.condition.source = "pattern" THEN PatternCondition(rule.condition.by, q)
    ELSE rule.condition.by = "always"

RoutingRule(name, agent, condition, priority) ==
    [name |-> name, agent |-> agent, condition |-> condition, priority |-> priority]

RouteResult(agent_name, route_response, matched_rule) ==
    [agent_name |-> agent_name, response |-> route_response,
     matched_rule |-> matched_rule]

RECURSIVE InsertByPriority(_, _)
\* the place of rule in a list sorted by -priority, after its equals
InsertByPriority(sorted, rule) ==
    IF sorted = <<>> THEN <<rule>>
    ELSE IF -Head(sorted).priority <= -rule.priority
    THEN <<Head(sorted)>> \o InsertByPriority(Tail(sorted), rule)
    ELSE <<rule>> \o sorted

RECURSIVE SortedByPriority(_, _)
SortedByPriority(sorted, rest) ==
    IF rest = <<>> THEN sorted
    ELSE SortedByPriority(InsertByPriority(sorted, Head(rest)), Tail(rest))

\* variant: the rules stay in the order of the calls
SortRoutesNone(rs) == rs

\* self._routes.sort(key=lambda r: -r.priority): a stable sort
SortRoutes(rs) == SortedByPriority(<<>>, rs)

\* "Build condition from keywords, pattern, or custom": the first that is
\* given of condition, pattern, keywords; ValueError when none is
BuildCondition(keywords, pattern, condition) ==
    IF condition # <<>>
    THEN [raised |-> FALSE, condition |-> [source |-> "condition", by |-> condition[1]]]
    ELSE IF pattern # <<>> /\ pattern # <<"">>
    THEN [raised |-> FALSE, condition |-> [source |-> "pattern", by |-> pattern[1]]]
    ELSE IF keywords # <<>> /\ keywords # << <<>> >>
    THEN [raised |-> FALSE, condition |-> [source |-> "keywords", by |-> keywords[1]]]
    ELSE [raised |-> TRUE, condition |-> <<>>]

\* Router.add_route: [raised, routes, agents]
add_route(rs, ags, name, agent, keywords, pattern, condition, priority) ==
    LET built == BuildCondition(keywords, pattern, condition)
        registered == SetItem(ags, name, agent)
    IN  IF built.raised
        THEN [raised |-> TRUE, routes |-> rs, agents |-> registered]
        ELSE [raised |-> FALSE,
              routes |-> SortRoutes(Append(rs, RoutingRule(name, agent, built.condition,
                                                           priority))),
              agents |-> registered]

\* the position of the first rule whose condition holds, 0 when none does
FirstMatch(rs, q) ==
    IF \E i \in 1..Len(rs) : Matches(rs[i], q)
    THEN CHOOSE i \in 1..Len(rs) :
             Matches(rs[i], q) /\ \A j \in 1..(i - 1) : ~Matches(rs[j], q)
    ELSE 0

\* self.config.default_agent and self.config.default_agent in self._agents
DefaultAvailable(ags, dflt) == dflt # <<>> /\ dflt # <<"">> /\ dflt[1] \in DOMAIN ags

\* the awaited agent.run(query) inside route(): its fault is not handled
AwaitAgent(agent, q, agent_name, matched_rule) ==
    LET ran == MockAgentRun(agent, q) IN
    IF ran.raised
    THEN [raised |-> TRUE, fault |-> "RuntimeError: " \o ran.message, result |-> <<>>,
          ran |-> <<agent>>]
    ELSE [raised |-> FALSE, fault |-> "",
          result |-> <<RouteResult(agent_name, ran.response, matched_rule)>>,
          ran |-> <<agent>>]

\* variant: the default agent is consulted before the rules
routeDefaultFirst(rs, ags, dflt, message, q) ==
    IF DefaultAvailable(ags, dflt)
    THEN AwaitAgent(ags[dflt[1]], q, dflt[1], <<>>)
    ELSE IF FirstMatch(rs, q) # 0
    THEN LET rule == rs[FirstMatch(rs, q)]
         IN  AwaitAgent(rule.agent, q, rule.name, <<rule.name>>)
    ELSE [raised |-> TRUE, fault |-> "ValueError: " \o message, result |-> <<>>,
          ran |-> <<>>]

\* Router.route(query): [raised, fault, result, ran], ran being the agents run
route(rs, ags, dflt, message, q) ==
    IF FirstMatch(rs, q) # 0
    THEN LET rule == rs[FirstMatch(rs, q)]
         IN  AwaitAgent(rule.agent, q, rule.name, <<rule.name>>)
    ELSE IF DefaultAvailable(ags, dflt)
    THEN AwaitAgent(ags[dflt[1]], q, dflt[1], <<>>)
    ELSE [raised |-> TRUE, fault |-> "ValueError: " \o message, result |-> <<>>,
          ran |-> <<>>]

\* Router.get_route(query): the name (<<>> is None)
get_route(rs, dflt, q) ==
    IF FirstMatch(rs, q) # 0 THEN <<rs[FirstMatch(rs, q)].name>> ELSE dflt

\* RouterConfig(), RouterConfig(default_agent="a"),
\* RouterConfig(fallback_message="No agent for this.")
RouterConfigs ==
    {[default_agent |-> <<>>, fallback_message |-> DefaultFallbackMessage],
     [default_agent |-> <<"a">>, fallback_message |-> DefaultFallbackMessage],
     [default_agent |-> <<>>, fallback_message |-> "No agent for this."]}

InitRouter ==
    /\ tools = {}
    /\ max_iterations = 0
    /\ reg = NoCall
    /\ AgentIdle
    /\ MemoryDefault
    /\ TruncationIdle
    /\ OrchestratorIdle
    /\ PipelineIdle
    /\ \E config \in RouterConfigs :
          /\ default_agent = config.default_agent
          /\ fallback_message = config.fallback_message
    /\ routes = <<>>
    /\ agents = <<>>
    /\ router_calls = 0
    /\ inserted = <<>>
    /\ add_call = <<>>
    /\ routed = <<>>
    /\ looked_up = <<>>

router_idle == <<tools, reg, agent_vars, memory_vars, truncation_vars,
                 orchestrator_vars, pipeline_vars, default_agent, fallback_message>>

\* router.add_route(name, agent, keywords=, pattern=, condition=, priority=)
AddRoute(name, agent, keywords, pattern, condition, priority) ==
    /\ router_calls < MaxRoutes
    /\ routed = <<>>
    /\ looked_up = <<>>
    /\ router_calls' = router_calls + 1
    /\ LET call == add_route(routes, agents, name, agent, keywords, pattern, condition,
                             priority)
       IN  /\ routes' = call.routes
           /\ agents' = call.agents
           /\ inserted' = IF call.raised THEN inserted
                          ELSE Append(inserted,
                                      RoutingRule(name, agent,
                                          BuildCondition(keywords, pattern,
                                                         condition).condition,
                                          priority))
           /\ add_call' = <<[given |-> Len(keywords) + Len(pattern) + Len(condition),
                             raised |-> call.raised]>>
    /\ UNCHANGED <<routed, looked_up, router_idle>>

\* await router.route(query)
Route(q) ==
    /\ routed = <<>>
    /\ routed' = <<[query |-> q,
                    outcome |-> route(routes, agents, default_agent, fallback_message, q)]>>
    /\ UNCHANGED <<routes, agents, router_calls, inserted, add_call, looked_up,
                   router_idle>>

\* router.get_route(query)
GetRoute(q) ==
    /\ looked_up = <<>>
    /\ looked_up' = <<[query |-> q, name |-> get_route(routes, default_agent, q)]>>
    /\ UNCHANGED <<routes, agents, router_calls, inserted, add_call, routed,
                   router_idle>>

NextRouter ==
    \/ \E name \in RouteNames, agent \in AgentKinds, given \in PredicateSources,
          priority \in Priorities :
          AddRoute(name, agent, given.keywords, given.pattern, given.condition, priority)
    \/ \E q \in RouterQueries : Route(q)
    \/ \E q \in RouterQueries : GetRoute(q)

SpecRouter == InitRouter /\ [][NextRouter]_vars

(***************************************************************************)
(* Properties of run().                                                    *)
(***************************************************************************)
ToolUseIds(content) ==
    LET uses == SelectBlocks(content, "tool_use")
    IN  [k \in 1..Len(uses) |-> uses[k].id]

ResultIds(content) == [k \in 1..Len(content) |-> content[k].tool_use_id]

\* the tool uses of message i of the log are answered, each by exactly one
\* result of the same id, in the user message right after it
Answered(log, i) ==
    \A k \in 1..Len(log[i].content) :
        log[i].content[k].type = "tool_use" =>
            /\ i < Len(log)
            /\ log[i + 1].role = "user"
            /\ ~log[i + 1].isstr
            /\ Cardinality({n \in 1..Len(log[i + 1].content) :
                    /\ log[i + 1].content[n].type = "tool_result"
                    /\ log[i + 1].content[n].tool_use_id = log[i].content[k].id}) = 1

\* C1: at each provider call of run(), every ToolUseBlock of every assistant
\* message appended earlier in the run is answered by exactly one
\* ToolResultBlock of the same id in the user message appended right after
C1_ToolUsesAnswered ==
    pc = "provider" =>
        \A i \in 1..Len(appended) :
            appended[i].role = "assistant" => Answered(appended, i)

\* C2: run() never returns stop_reason tool_use: it returns the provider's
\* end_turn Response or the synthetic max_iterations Response
C2_NeverReturnsToolUse ==
    pc = "returned" =>
        /\ returned.stop_reason # "tool_use"
        /\ \/ returned.stop_reason = "end_turn" /\ returned = response
           \/ returned = MaxIterationsResponse

C2_Witness ==
    /\ pc = "returned"
    /\ returned = MaxIterationsResponse
    /\ response.stop_reason = "tool_use"
    /\ get_tool_uses(response) # <<>>

NoEndTurn == \A i \in 1..Len(responses) : responses[i].stop_reason # "end_turn"

\* C3: when every provider and tool call returns, run() ends after at most
\* max_iterations provider calls; without an end_turn it returns (does not
\* raise) the synthetic Response after exactly max_iterations calls
C3_Terminates ==
    /\ [](provider_calls <= max_iterations)
    /\ [](pc = "raised" => fault # "")
    /\ []((pc = "returned" /\ NoEndTurn) =>
            /\ returned = MaxIterationsResponse
            /\ returned.content = <<TextContent("Maximum iterations reached")>>
            /\ provider_calls = max_iterations)
    /\ <>(pc \in {"returned", "raised"})

C3_Witness ==
    /\ pc = "returned"
    /\ NoEndTurn
    /\ fault = ""
    /\ provider_calls = MaxIterations

\* C4: the tool calls of a turn run one at a time in the order of the
\* ToolUseBlocks, and the user message appended afterwards holds the results
\* in that order, the k-th with the id of the k-th ToolUseBlock
C4_ToolsInOrder ==
    /\ pc = "tools" =>
          /\ Len(executed) < Len(get_tool_uses(response))
          /\ executed = SubSeq(get_tool_uses(response), 1, Len(executed))
          /\ tool_uses = SubSeq(get_tool_uses(response), Len(executed) + 1,
                                Len(get_tool_uses(response)))
          /\ ResultIds(results) = ToolUseIds(executed)
    /\ \A i \in 1..(Len(appended) - 1) :
          (appended[i].role = "assistant" /\ appended[i + 1].role = "user") =>
              /\ \A n \in 1..Len(appended[i + 1].content) :
                     appended[i + 1].content[n].type = "tool_result"
              /\ ResultIds(appended[i + 1].content) = ToolUseIds(appended[i].content)
    /\ (pc \in {"provider", "returned"} /\ response.stop_reason = "tool_use") =>
          /\ executed = get_tool_uses(response)
          /\ appended[Len(appended)].role = "user"

C4_Witness ==
    /\ pc \in {"provider", "returned"}
    /\ Len(executed) = 2
    /\ appended[Len(appended)].role = "user"
    /\ Len(appended[Len(appended)].content) = 2

\* C5: no tool-related fault leaves run(): whatever the tool name and the
\* argument map, a ToolResultBlock is recorded and the loop goes on
C5_ToolFaultsContained ==
    /\ pc = "raised" => fault = "provider"
    /\ (pc \in {"provider", "returned"} /\ response.stop_reason = "tool_use") =>
          Len(appended[Len(appended)].content) = Len(get_tool_uses(response))

\* the messages a run has appended once its latest turn is complete
CompletedLog ==
    /\ Len(appended) = 1 + Len(responses)
          + Cardinality({i \in 1..Len(responses) : responses[i].stop_reason = "tool_use"})
    /\ appended[1] = StrMessage("user", query)
    /\ responses # <<>> =>
          LET last == responses[Len(responses)] IN
          IF last.stop_reason = "tool_use"
          THEN /\ appended[Len(appended)].role = "user"
               /\ appended[Len(appended) - 1] = Message("assistant", last.content)
          ELSE appended[Len(appended)] = Message("assistant", last.content)

\* C7: a provider fault is not caught: it reaches the caller, the run makes no
\* further provider or tool call, and Memory keeps exactly the messages
\* appended before the fault
C7_ProviderFaultPropagates ==
    /\ [](fault = "provider" => (pc = "raised" /\ memory = appended /\ CompletedLog))
    /\ [][(fault = "" /\ fault' = "provider") =>
             (memory' = memory /\ appended' = appended /\ executed' = executed)]_vars
    /\ [][pc = "raised" => UNCHANGED <<memory, provider_calls, executed>>]_vars

C7_Witness ==
    /\ fault = "provider"
    /\ pc = "raised"
    /\ Len(responses) >= 1
    /\ Len(memory) >= 3

AllToolUse(rs) == \A i \in 1..Len(rs) : rs[i].stop_reason = "tool_use"

\* C8: from an empty Memory and with nothing truncated, a run that ends with
\* end_turn after k tool_use turns leaves 2k+2 messages: the query, k pairs
\* (assistant tool uses, user tool results), the final assistant message
C8_MemoryAfterRun ==
    (/\ pc = "returned"
     /\ returned.stop_reason = "end_turn"
     /\ ~dropped
     /\ AllToolUse(SubSeq(responses, 1, Len(responses) - 1))) =>
        LET k == Len(responses) - 1 IN
        /\ Len(memory) = 2 * k + 2
        /\ memory[1] = StrMessage("user", query)
        /\ \A j \in 1..k :
              /\ memory[2 * j] = Message("assistant", responses[j].content)
              /\ memory[2 * j + 1].role = "user"
              /\ ~memory[2 * j + 1].isstr
              /\ \A n \in 1..Len(memory[2 * j + 1].content) :
                     memory[2 * j + 1].content[n].type = "tool_result"
              /\ ResultIds(memory[2 * j + 1].content) = ToolUseIds(responses[j].content)
              /\ \A n \in 1..Len(memory[2 * j + 1].content) :
                     get_tool_uses(responses[j])[n]
                         = ToolUseContent("t1", "echo", << <<"message", PyStr("hi")>> >>)
                     => /\ memory[2 * j + 1].content[n].content = "Echo: hi"
                        /\ ~memory[2 * j + 1].content[n].is_error
        /\ memory[2 * k + 2] = Message("assistant", responses[k + 1].content)
        /\ returned = responses[k + 1]

C8_Witness ==
    /\ pc = "returned"
    /\ returned.stop_reason = "end_turn"
    /\ ~dropped
    /\ Len(responses) = 2
    /\ responses[1].stop_reason = "tool_use"
    /\ get_tool_uses(responses[1]) # <<>>
    /\ Len(memory) = 4

(***************************************************************************)
(* Properties of the registry.                                             *)
(***************************************************************************)
\* C6: ToolRegistry.execute never raises: an unregistered name gives
\* ToolResult{success=false, error="Unknown tool: <name>"} without any tool
\* being called, a fault of the tool gives ToolResult{success=false,
\* output=str(fault), error=str(fault)}, and the tool map is left unchanged
C6_RegistryNeverRaises ==
    /\ [](reg.calls > 0 =>
            /\ ~reg.outcome.raised
            /\ reg.name \notin reg.registered =>
                  /\ ~reg.outcome.called
                  /\ ~reg.outcome.result.success
                  /\ reg.outcome.result.error = "Unknown tool: " \o reg.name
            /\ reg.tool_raised =>
                  /\ reg.outcome.called
                  /\ reg.outcome.result
                       = ToolResult(reg.tool_message, FALSE, reg.tool_message)
            /\ (reg.name \in reg.registered /\ ~reg.tool_raised) =>
                  reg.outcome.called)
    /\ [][reg'.calls # reg.calls => (tools' = tools /\ reg'.registered = tools)]_vars

C6_Witness ==
    /\ reg.calls = 2
    /\ reg.name = "failing"
    /\ reg.tool_raised
    /\ reg.outcome.result.error = "Intentional failure"
    /\ tools = {"echo", "failing"}


(***************************************************************************)
(* Properties of run_stream().                                             *)
(***************************************************************************)
ParsedOrEmpty(string) ==
    IF string # "" /\ JsonLoads(string).ok THEN JsonLoads(string).value
    ELSE EmptyDict

RECURSIVE FragmentsFor(_, _)
\* every fragment of the turn that carries `id`, concatenated in arrival order
FragmentsFor(evs, id) ==
    IF evs = <<>> THEN ""
    ELSE (IF Head(evs).type = "tool_use_input" /\ Head(evs).id = id
          THEN Head(evs).input_delta ELSE "")
         \o FragmentsFor(Tail(evs), id)

RECURSIVE FragmentsWhileOpen(_, _)
\* the fragments carrying `id` in `evs`, the events that follow its
\* ToolUseStart, up to the next ToolUseStart or MessageStop
FragmentsWhileOpen(evs, id) ==
    IF evs = <<>> THEN ""
    ELSE IF Head(evs).type \in {"tool_use_start", "message_stop"} THEN ""
    ELSE (IF Head(evs).type = "tool_use_input" /\ Head(evs).id = id
          THEN Head(evs).input_delta ELSE "")
         \o FragmentsWhileOpen(Tail(evs), id)

RECURSIVE DescriptorsOfAll(_, _)
DescriptorsOfAll(turn, evs) ==
    IF evs = <<>> THEN <<>>
    ELSE IF Head(evs).type = "tool_use_start"
    THEN <<[id |-> Head(evs).id, name |-> Head(evs).name,
            input |-> ParsedOrEmpty(FragmentsFor(turn, Head(evs).id))]>>
         \o DescriptorsOfAll(turn, Tail(evs))
    ELSE DescriptorsOfAll(turn, Tail(evs))

RECURSIVE DescriptorsOfOpen(_)
DescriptorsOfOpen(evs) ==
    IF evs = <<>> THEN <<>>
    ELSE IF Head(evs).type = "tool_use_start"
    THEN <<[id |-> Head(evs).id, name |-> Head(evs).name,
            input |-> ParsedOrEmpty(FragmentsWhileOpen(Tail(evs), Head(evs).id))]>>
         \o DescriptorsOfOpen(Tail(evs))
    ELSE DescriptorsOfOpen(Tail(evs))

\* C9 (as stated): once the turn has ended with MessageStop there is one
\* descriptor per ToolUseStart, in the order of the starts, and its argument
\* map is the parse of the concatenation of every fragment received for its
\* id during the turn.
C9_AllFragmentsParsed ==
    TurnStopped => tool_uses = DescriptorsOfAll(events, events)

\* C9 (amended): once the turn has ended with MessageStop there is one
\* descriptor per ToolUseStart, in the order of the starts; its argument map
\* is the parse of the concatenation, in arrival order, of the fragments for
\* its id received while it was the open call (after its ToolUseStart and
\* before the next ToolUseStart or the MessageStop), the empty map when that
\* string is empty or is no JSON; and no tool of the turn is executed
\* before the turn has stopped and the descriptors are complete.
C9_OpenFragmentsParsed ==
    /\ TurnStopped => tool_uses = DescriptorsOfOpen(events)
    /\ pc \in {"s_executing", "s_result"} =>
          /\ TurnStopped
          /\ tool_uses = DescriptorsOfOpen(events)
          /\ \A i \in 1..Len(executed) :
                 /\ executed[i].id = tool_uses[i].id
                 /\ executed[i].input = tool_uses[i].input.kv

\* the fragments {"a": and 1} of call t1 were reconstructed into {"a": 1}
\* and the tool is about to be executed with it
C9_Witness ==
    /\ pc = "s_executing"
    /\ Len(events) = 4
    /\ events[2] = ToolUseInputEvent("t1", "{\"a\":")
    /\ events[3] = ToolUseInputEvent("t1", "1}")
    /\ tool_uses = <<[id |-> "t1", name |-> "echo",
                      input |-> [t |-> "dict", kv |-> << <<"a", PyInt("1")>> >>]]>>

\* C10: whatever the accumulated argument string of a streamed tool call,
\* run_stream() raises nothing on its account: building the assistant turn
\* never fails.
C10_MalformedArgsContained ==
    ~(pc = "raised" /\ fault = "ValidationError")

\* memory holds the messages of the finished steps of the run and no other:
\* the query first, and at most one assistant message per finished turn
CommittedOnly ==
    /\ memory = appended
    /\ memory[1] = StrMessage("user", query)
    /\ Cardinality({i \in 1..Len(memory) : memory[i].role = "assistant"}) <= iteration

\* C11: when run_stream() is cancelled while the events of a turn are being
\* consumed, memory holds exactly the messages appended before the turn
\* began, unchanged, and nothing of the partial turn (text, open or
\* accumulated tool call).
C11_CancelKeepsPrefix ==
    (pc = "cancelled" /\ ~dropped) =>
        CommittedOnly

\* cancelled in the middle of a turn that has streamed text and has an open
\* tool call with a fragment accumulated
C11_Witness ==
    /\ pc = "cancelled"
    /\ collected_text # ""
    /\ current_tool # <<>>
    /\ \E id \in DOMAIN tool_input_buffers : tool_input_buffers[id] # ""
    /\ ~TurnStopped

\* no provider stream raised, no tool call raised, nothing was cancelled
StreamCallsFinish == fault \notin {"provider", "tool", "TypeError", "CancelledError"}

MessageStops(ys) == {i \in 1..Len(ys) : ys[i].type = "message_stop"}

\* C12: provided every provider stream and every tool call finishes, the
\* events of run_stream() are finitely many, at most max_iterations provider
\* streams are opened, the provider's MessageStop events are not passed on,
\* and the sequence ends with exactly one MessageStop of the loop, with
\* stop_reason end_turn or max_iterations, after which no event follows.
C12_StreamEndsWithStop ==
    /\ [](provider_calls <= max_iterations)
    /\ [](pc # "s_done" => MessageStops(yielded) = {})
    /\ [](pc = "s_done" =>
            /\ MessageStops(yielded) = {Len(yielded)}
            /\ yielded[Len(yielded)].stop_reason \in {"end_turn", "max_iterations"})
    /\ [][pc = "s_done" => yielded' = yielded]_vars
    /\ <>(pc = "s_done" \/ ~StreamCallsFinish)

\* output[:n] of Python
FirstChars(output, n) ==
    IF Len(output) <= n THEN output ELSE SubSeq(output, 1, n)

\* what the registry returns for a tool call of the turn
OutputOf(call) == RegistryExecute(tools, call.name, call.kv).result

\* the first n events of ToolExecuting(t1), ToolResult(t1), ...,
\* ToolExecuting(tk), ToolResult(tk), each ToolResult with the first
\* PreviewLength characters of the output
ToolEventsOf(calls, n) ==
    [i \in 1..n |->
        LET call == calls[(i + 1) \div 2] IN
        IF i % 2 = 1
        THEN ToolExecutingEvent(call.name, call.id)
        ELSE ToolResultEvent(call.name, call.id, OutputOf(call).success,
                             FirstChars(OutputOf(call).output, PreviewLength))]

\* the last n events the caller has seen, leaving out the newest `after`
SeenBefore(after, n) ==
    SubSeq(yielded, Len(yielded) - after - n + 1, Len(yielded) - after)

\* the tool calls of the turn being executed
TurnCalls ==
    [i \in 1..Len(tool_uses) |->
        [id |-> tool_uses[i].id, name |-> tool_uses[i].name,
         kv |-> tool_uses[i].input.kv]]

\* the tool calls of the turn whose results were stored last
StoredCalls ==
    [i \in 1..Len(executed) |->
        [id |-> executed[i].id, name |-> executed[i].name,
         kv |-> executed[i].input]]

\* the events of the open turn that were passed on to the caller
PassedOn ==
    IF pc = "s_done" THEN 1
    ELSE Cardinality({i \in 1..Len(events) :
                         events[i].type \in {"text_delta", "tool_use_start"}})

\* the results of a turn were stored and no later turn has ended
ResultsStored == pc \in {"stream", "s_done"} /\ results # <<>>

\* C29: for the tool calls t1..tn of one turn the caller sees
\* ToolExecuting(t1), ToolResult(t1), ..., ToolExecuting(tn), ToolResult(tn)
\* in that order.  While ToolExecuting(tk) is the newest event, t1..t(k-1)
\* and no other were executed; when ToolResult(tk) is the newest, tk was
\* executed too.  Every ToolResult event carries the first 200 characters
\* of the output.  Until the last ToolResult event was seen the newest
\* message of Memory is the assistant turn; after it, it is the user
\* message with the n results, each with the full output.
C29_ToolEventsAroundExecution ==
    /\ pc = "s_executing" =>
          /\ Len(yielded) >= 2 * Len(results) + 1
          /\ SeenBefore(0, 2 * Len(results) + 1)
                = ToolEventsOf(TurnCalls, 2 * Len(results) + 1)
          /\ Len(executed) = Len(results)
          /\ \A i \in 1..Len(executed) : executed[i].id = tool_uses[i].id
          /\ memory[Len(memory)].role = "assistant"
    /\ pc = "s_result" =>
          /\ Len(yielded) >= 2 * Len(results) + 2
          /\ SeenBefore(0, 2 * Len(results) + 2)
                = ToolEventsOf(TurnCalls, 2 * Len(results) + 2)
          /\ Len(executed) = Len(results) + 1
          /\ \A i \in 1..Len(executed) : executed[i].id = tool_uses[i].id
          /\ memory[Len(memory)].role = "assistant"
    /\ ResultsStored =>
          /\ Len(yielded) >= PassedOn + 2 * Len(executed)
          /\ SeenBefore(PassedOn, 2 * Len(executed))
                = ToolEventsOf(StoredCalls, 2 * Len(executed))
          /\ memory[Len(memory)] =
                Message("user",
                        [i \in 1..Len(executed) |->
                            ToolResultContent(executed[i].id,
                                              OutputOf(StoredCalls[i]).output,
                                              ~OutputOf(StoredCalls[i]).success)])
    /\ \A i \in 1..Len(yielded) :
          yielded[i].type = "tool_result" => Len(yielded[i].output) <= PreviewLength

\* a turn with two tool calls was executed; the first one echoed a long
\* message: its ToolResult event has the first 200 characters, the block in
\* Memory the whole output
C29_Witness ==
    /\ ResultsStored
    /\ Len(executed) = 2
    /\ yielded[Len(yielded) - PassedOn - 2].output
          = FirstChars("Echo: " \o LongText, PreviewLength)
    /\ memory[Len(memory)].content[1].content = "Echo: " \o LongText
    /\ Len(memory[Len(memory)].content[1].content) > PreviewLength

\* the tool use of an assistant message that a result block answers
AnsweredUse(assistant, block) ==
    CHOOSE use \in {assistant.content[k] : k \in 1..Len(assistant.content)} :
        use.type = "tool_use" /\ use.id = block.tool_use_id

RECURSIVE CallsIn(_, _)
\* the tool executions recorded in the messages handed to Memory from the
\* i-th on: one per result block, with the name and arguments of its tool use
CallsIn(messages, i) ==
    IF i > Len(messages) THEN <<>>
    ELSE IF i >= 2 /\ messages[i].role = "user" /\ ~messages[i].isstr
    THEN [j \in 1..Len(messages[i].content) |->
             LET use == AnsweredUse(messages[i - 1], messages[i].content[j])
             IN  [name |-> use.name, input |-> use.input]]
         \o CallsIn(messages, i + 1)
    ELSE CallsIn(messages, i + 1)

\* the second agent's run_stream() has yielded its final MessageStop
StreamCompared == reference # <<>> /\ pc = "s_done"

\* C30: when run_stream(query) has ended on a provider whose stream of each
\* turn renders the Response complete() returned to run(query) in that turn,
\* Memory holds the same messages with the same blocks in the same order as
\* after run(query), the same tools were executed with the same arguments in
\* the same order, and the final stop reason is the same.
C30_StreamEquivalentToRun ==
    StreamCompared =>
        /\ memory = reference[1].memory
        /\ CallsIn(appended, 1) = CallsIn(reference[1].appended, 1)
        /\ yielded[Len(yielded)].stop_reason = reference[1].stop_reason

RECURSIVE FragmentsSinceStart(_, _)
\* every fragment carrying `id` that arrives after the ToolUseStart of `id`,
\* whatever arrives in between, concatenated in arrival order
FragmentsSinceStart(evs, id) ==
    IF evs = <<>> THEN ""
    ELSE IF Head(evs).type = "tool_use_start" /\ Head(evs).id = id
    THEN FragmentsFor(Tail(evs), id)
    ELSE FragmentsSinceStart(Tail(evs), id)

\* C36: fragments are attributed to tool calls by id, independently of
\* arrival position: each tool call of a turn is executed with the parse of
\* the concatenation of all fragments carrying its id, also of those that
\* arrive after the ToolUseStart of a later call.
C36_FragmentsAttributedById ==
    pc \in {"s_executing", "s_result"} =>
        \A i \in 1..Len(executed) :
            executed[i].input
               = ParsedOrEmpty(FragmentsSinceStart(events, executed[i].id)).kv

\* C33: the message list passed to the first provider call of a run() ends
\* with the user message holding the query, whatever the Memory held before
\* and whatever the strategy, max_messages and max_context_tokens are
C33_QuerySurvivesTruncation ==
    (pc = "provider" /\ iteration = 0) =>
        /\ memory # <<>>
        /\ memory[Len(memory)] = StrMessage("user", query)

\* the tool_result block at position j of message i has its request before it:
\* an earlier assistant message holds the tool_use block with its id
Requested(messages, i, j) ==
    \E k \in 1..(i - 1) :
        /\ messages[k].role = "assistant"
        /\ \E l \in 1..Len(messages[k].content) :
              /\ messages[k].content[l].type = "tool_use"
              /\ messages[k].content[l].id = messages[i].content[j].tool_use_id

\* C35: after any sequence of run() calls, with any max_context_tokens,
\* max_messages and strategy, every tool_result block of the message list
\* passed to the provider is preceded in that list by an assistant message
\* holding the tool_use block with the same id
C35_ResultNeverWithoutRequest ==
    pc = "provider" =>
        \A i \in 1..Len(memory) :
            \A j \in 1..Len(memory[i].content) :
                memory[i].content[j].type = "tool_result" => Requested(memory, i, j)

\* C37: after any sequence of completed run() calls on one agent that began
\* with an empty Memory, none of which had a message removed by the cap or by
\* truncation, the stored roles alternate user, assistant, user, ..., and the
\* synthetic max_iterations Response is not stored
C37_RolesAlternate ==
    (pc = "returned" /\ ~dropped) =>
        /\ \A i \in 1..Len(memory) :
              memory[i].role = (IF i % 2 = 1 THEN "user" ELSE "assistant")
        /\ \A i \in 1..Len(memory) :
              memory[i] # Message("assistant", MaxIterationsResponse.content)

\* the tool_use block at position j of message i is answered: a later message
\* holds a tool_result block with its id
AnsweredLater(messages, i, j) ==
    \E k \in (i + 1)..Len(messages) :
        \E l \in 1..Len(messages[k].content) :
            /\ messages[k].content[l].type = "tool_result"
            /\ messages[k].content[l].tool_use_id = messages[i].content[j].id

\* C34: when run_stream() is cancelled or abandoned by its consumer at a yield
\* point, the yields of ToolExecuting and ToolResult included, every tool_use
\* block stored in the Memory is answered by a tool_result block with its id
C34_AbandonedStreamLeavesNoOpenToolUse ==
    pc \in {"cancelled", "abandoned"} =>
        \A i \in 1..Len(memory) :
            \A j \in 1..Len(memory[i].content) :
                memory[i].content[j].type = "tool_use" => AnsweredLater(memory, i, j)

\* the step in which run_stream() leaves the async for of a turn whose
\* stream ended, the last event not being a MessageStop
EndsWithoutStop ==
    /\ pc = "stream"
    /\ ~TurnStopped
    /\ (iteration' # iteration \/ fault' = "ValidationError")

\* C38: when the provider's stream of a turn ends without a MessageStop
\* event, run_stream() treats the turn as end_turn: it commits only the
\* collected text (if any), stores and executes no tool call, emits
\* MessageStop(end_turn) and finishes without another provider call.
C38_NoStopIsEndTurn ==
    [][EndsWithoutStop =>
          /\ pc' = "s_done"
          /\ memory' = IF collected_text # ""
                       THEN Append(memory, Message("assistant",
                                                   <<TextContent(collected_text)>>))
                       ELSE memory
          /\ yielded' = Append(yielded, MessageStopEvent("end_turn"))
          /\ executed' = <<>>
          /\ provider_calls' = provider_calls]_vars

(***************************************************************************)
(* Properties of the truncation functions.                                 *)
(***************************************************************************)
OverBudget == outcome.op = "fifo" /\ SumTokens(conversation) > budget

\* the result is message[0] followed by the most recent messages
FirstThenSuffix(result, messages) ==
    /\ result # <<>>
    /\ result[1] = messages[1]
    /\ Len(result) <= Len(messages)
    /\ \A i \in 2..Len(result) :
           result[i] = messages[Len(messages) - Len(result) + i]

\* C13 (as stated): for a message list over the budget, truncate_fifo keeps
\* message[0]; the result fits the budget when message[0] alone fits; the
\* result equals the untruncated input when message[0] alone exceeds it.
C13_FifoOverBudgetUntruncated ==
    OverBudget =>
        /\ outcome.once[1] = conversation[1]
        /\ estimate_tokens(conversation[1]) <= budget =>
               SumTokens(outcome.once) <= budget
        /\ estimate_tokens(conversation[1]) > budget =>
               outcome.once = conversation

\* C13 (amended): for a message list over the budget, truncate_fifo returns
\* message[0] followed by a suffix of the list; the result fits the budget
\* when message[0] alone fits; when message[0] alone exceeds the budget the
\* result is message[0] alone; tokens_removed is the estimate of what was
\* dropped.
C13_FifoOverBudget ==
    OverBudget =>
        /\ FirstThenSuffix(outcome.once, conversation)
        /\ estimate_tokens(conversation[1]) <= budget =>
               SumTokens(outcome.once) <= budget
        /\ estimate_tokens(conversation[1]) > budget =>
               outcome.once = <<conversation[1]>>
        /\ outcome.removed = SumTokens(conversation) - SumTokens(outcome.once)

\* truncate_fifo was applied to a list of three messages whose first message
\* alone is over the budget, and returned that message alone
C13_Witness ==
    /\ OverBudget
    /\ Len(conversation) = 3
    /\ estimate_tokens(conversation[1]) > budget
    /\ outcome.once = <<conversation[1]>>

\* C14: truncate_sliding applied twice with the same keep_first >= 0 and
\* keep_last >= 0 returns what one application returned, and the second
\* application reports 0 tokens removed.
C14_SlidingIdempotent ==
    outcome.op = "sliding" =>
        /\ outcome.twice = outcome.once
        /\ outcome.removed_twice = 0

\* the estimate of messages[1] and of the n most recent messages
KeptTokens(messages, n) ==
    estimate_tokens(messages[1])
    + SumTokens(SubSeq(messages, Len(messages) - n + 1, Len(messages)))

\* C28: over the budget, truncate_fifo returns message[0] followed by a
\* contiguous suffix of messages[1:] in original order: it re-admits from the
\* most recent backwards and stops at the first message that would exceed the
\* budget, without skipping it to admit older ones; tokens_removed is the sum
\* of the estimates of the dropped messages; within the budget the list is
\* returned unchanged with 0 removed
C28_FifoGreedySuffix ==
    outcome.op = "fifo" =>
        IF SumTokens(conversation) <= budget
        THEN outcome.once = conversation /\ outcome.removed = 0
        ELSE LET n == Len(outcome.once) - 1
                 rest == Len(conversation) - 1
             IN  /\ FirstThenSuffix(outcome.once, conversation)
                 /\ n > 0 => KeptTokens(conversation, n) <= budget
                 /\ n < rest => KeptTokens(conversation, n + 1) > budget
                 /\ outcome.removed = SumTokens(SubSeq(conversation, 2, rest + 1 - n))

\* four messages: the newest is re-admitted, the one before it does not fit,
\* and the oldest droppable one, which would fit, is dropped with it
C28_Witness ==
    /\ OverBudget
    /\ Len(conversation) = 4
    /\ outcome.once = <<conversation[1], conversation[4]>>
    /\ KeptTokens(conversation, 1) + estimate_tokens(conversation[3]) > budget
    /\ KeptTokens(conversation, 1) + estimate_tokens(conversation[2]) <= budget
    /\ outcome.removed = estimate_tokens(conversation[2]) + estimate_tokens(conversation[3])

(***************************************************************************)
(* Properties of ShortTermMemory.                                          *)
(***************************************************************************)
\* the last n elements of a list, n >= 0 (none when n = 0)
Newest(log, n) ==
    IF n >= Len(log) THEN log ELSE SubSeq(log, Len(log) - n + 1, Len(log))

\* C15: whatever max_messages the memory was constructed with and whatever
\* add, truncate and clear calls were made, it holds at most max_messages
\* messages; while neither truncate nor clear was called it holds exactly
\* the last max_messages messages added, in order.
C15_MemoryCapped ==
    /\ Len(memory) <= max_messages
    /\ ~reset => memory = Newest(appended, max_messages)

(***************************************************************************)
(* Properties of Orchestrator.run().                                       *)
(***************************************************************************)
DependsOn(ts, name) ==
    {TaskByName(ts, name).depends_on[j] :
        j \in 1..Len(TaskByName(ts, name).depends_on)}

RECURSIVE DependencyClosure(_, _)
\* the names reached from `names` along depends_on, among the tasks
DependencyClosure(ts, names) ==
    LET more == names \cup UNION {DependsOn(ts, n) \cap NamesOf(ts) : n \in names}
    IN  IF more = names THEN names ELSE DependencyClosure(ts, more)

\* some task depends on itself, directly or through other tasks
Cyclic(ts) ==
    \E n \in NamesOf(ts) :
        n \in DependencyClosure(ts, DependsOn(ts, n) \cap NamesOf(ts))

AllDependenciesAdded(ts) == \A n \in NamesOf(ts) : DependsOn(ts, n) \subseteq NamesOf(ts)

InvokedNames == {invoked[i].task : i \in 1..Len(invoked)}

\* the dependencies are {A: [], B: [A], C: [B]}
IsChain(ts) ==
    /\ NamesOf(ts) = {"A", "B", "C"}
    /\ TaskByName(ts, "A").depends_on = <<>>
    /\ TaskByName(ts, "B").depends_on = <<"A">>
    /\ TaskByName(ts, "C").depends_on = <<"B">>

\* C16: for an acyclic task set whose dependencies are all added tasks,
\* run() raises nothing, an agent is invoked only after the agents of all
\* the tasks its task depends on were invoked and completed, the context
\* map its query was given holds the TaskResult of each of them under the
\* task's name, and the chain {A: [], B: [A], C: [B]} runs A, B, C.
C16_DependenciesFirst ==
    (AllDependenciesAdded(tasks) /\ ~Cyclic(tasks)) =>
        /\ orchestrator_pc # "raised"
        /\ \A i \in 1..Len(invoked) :
               \A dep \in DependsOn(tasks, invoked[i].task) :
                   /\ \E j \in 1..(i - 1) : invoked[j].task = dep
                   /\ dep \in completed
                   /\ dep \in DOMAIN invoked[i].context
                   /\ invoked[i].context[dep] = task_results[dep]
                   /\ invoked[i].context[dep].agent_name = dep
        /\ IsChain(tasks) =>
               /\ \A i \in 1..Len(invoked) : invoked[i].task = NameOrder[i]
               /\ (orchestrator_pc = "returned"
                   /\ \A i \in 1..Len(tasks) : tasks[i].agent = "mock")
                  => Len(invoked) = 3

\* the chain added as C, B, A, every agent answering, has run to the end
C16_Witness ==
    /\ orchestrator_pc = "returned"
    /\ \A i \in 1..Len(tasks) : tasks[i].agent = "mock"
    /\ IsChain(tasks)
    /\ tasks[1].name = "C" /\ tasks[2].name = "B" /\ tasks[3].name = "A"
    /\ Len(invoked) = 3
    /\ DOMAIN invoked[3].context = {"A", "B"}

\* C17: when the dependency graph has a cycle (a task depending on itself
\* included), run() raises the circular-dependency ValueError and no agent
\* is invoked and no query built, not even for tasks off the cycle.
C17_CycleRaisesFirst ==
    (Cyclic(tasks) /\ orchestrator_pc # "idle") =>
        /\ orchestrator_pc = "raised"
        /\ orchestrator_fault = "ValueError: Circular dependency detected in tasks"
        /\ invoked = <<>>
        /\ task_results = <<>>

\* run() raised on a cycle between two tasks while a third task, that has
\* no dependency, was added first
C17_Witness ==
    /\ orchestrator_pc = "raised"
    /\ Len(tasks) = 3
    /\ tasks[1].depends_on = <<>>
    /\ tasks[2].depends_on = <<tasks[3].name>>
    /\ tasks[3].depends_on = <<tasks[2].name>>
    /\ invoked = <<>>

\* C18: whenever run() returns, the returned map has a TaskResult for every
\* added task and for nothing else, keyed by task name.
C18_EveryTaskHasResult ==
    orchestrator_pc = "returned" =>
        /\ DOMAIN task_results = NamesOf(tasks)
        /\ \A n \in DOMAIN task_results : task_results[n].agent_name = n

\* C19: with fail_fast set, when run() has returned, every task with a
\* dependency whose TaskResult is unsuccessful had its agent not invoked and
\* has a failure TaskResult whose error names a failed dependency.
C19_FailedDependencySkipped ==
    (orchestrator_pc = "returned" /\ fail_fast) =>
        \A n \in NamesOf(tasks) :
            LET failed == {d \in DependsOn(tasks, n) \cap DOMAIN task_results :
                              ~task_results[d].success}
            IN  failed # {} =>
                    /\ n \notin InvokedNames
                    /\ n \in DOMAIN task_results
                    /\ \E d \in failed :
                           task_results[n] =
                               TaskResult(n, FALSE, NoResponse,
                                          "Dependency '" \o d \o "' failed")

\* C20: run() raises only before any agent was invoked; once an agent was
\* invoked run() does not raise, and a failed agent call is a failure
\* TaskResult in the map.
C20_FaultsBeforeAgents ==
    /\ orchestrator_pc = "raised" => invoked = <<>>
    /\ \A i \in 1..Len(invoked) :
           (TaskByName(tasks, invoked[i].task).agent = "failing"
            /\ invoked[i].task \in DOMAIN task_results)
           => ~task_results[invoked[i].task].success

\* the positions in `invoked` of the tasks whose agent raised
FailedInvocations ==
    {i \in 1..Len(invoked) : TaskByName(tasks, invoked[i].task).agent = "failing"}

\* C32: with fail_fast set, when a task's agent raises, run() has returned
\* with a failure TaskResult carrying the fault's text for that task, and
\* that call is the last thing run() invoked: no agent and no query
\* function of a later task of the execution order, dependent or not.
C32_FailFastStopsEverything ==
    fail_fast =>
        \A i \in FailedInvocations :
            /\ i = Len(invoked)
            /\ orchestrator_pc = "returned"
            /\ position <= Len(execution_order)
            /\ invoked[i].task = execution_order[position]
            /\ task_results[invoked[i].task]
                  = TaskResult(invoked[i].task, FALSE, NoResponse, "Agent failed")
            /\ \A k \in (position + 1)..Len(execution_order) :
                   execution_order[k] \notin InvokedNames

\* the first of three tasks failed; the two later ones, one not depending on
\* it and one depending on it, were never invoked
C32_Witness ==
    /\ fail_fast
    /\ orchestrator_pc = "returned"
    /\ Len(execution_order) = 3
    /\ position = 1
    /\ FailedInvocations = {1}
    /\ DependsOn(tasks, execution_order[2]) = {}
    /\ execution_order[1] \in DependsOn(tasks, execution_order[3])
    /\ DOMAIN task_results = {execution_order[1]}

\* the failure TaskResult of a task whose agent raised
FailureOf(n) == TaskResult(n, FALSE, NoResponse, "Agent failed")

\* C40: with fail_fast unset (and a task set that run() accepts: acyclic,
\* every dependency an added task), a task whose agent raises gets a failure
\* TaskResult, is counted as completed and is in the context map; every task
\* depending on it has its agent invoked, with that failure in the context
\* its query is given; and run() returns a TaskResult for every task.
C40_FailedTaskStillFeedsDependents ==
    (~fail_fast /\ AllDependenciesAdded(tasks) /\ ~Cyclic(tasks)) =>
        /\ orchestrator_pc # "raised"
        /\ \A i \in FailedInvocations :
               LET n == invoked[i].task IN
               /\ n \in DOMAIN task_results /\ task_results[n] = FailureOf(n)
               /\ n \in completed
               /\ n \in DOMAIN context /\ context[n] = FailureOf(n)
               /\ \A j \in 1..Len(invoked) :
                      n \in DependsOn(tasks, invoked[j].task) =>
                          /\ i < j
                          /\ n \in DOMAIN invoked[j].context
                          /\ invoked[j].context[n] = FailureOf(n)
               /\ orchestrator_pc = "returned" =>
                      \A m \in NamesOf(tasks) :
                          n \in DependsOn(tasks, m) => m \in InvokedNames
        /\ orchestrator_pc = "returned" =>
               /\ DOMAIN task_results = NamesOf(tasks)
               /\ Len(invoked) = Len(tasks)

\* A failed, B depends on A and C on B: all three were invoked, B with A's
\* failure in its context
C40_Witness ==
    /\ ~fail_fast
    /\ orchestrator_pc = "returned"
    /\ IsChain(tasks)
    /\ TaskByName(tasks, "A").agent = "failing"
    /\ Len(invoked) = 3
    /\ invoked[2].task = "B"
    /\ invoked[2].context["A"] = FailureOf("A")
    /\ DOMAIN task_results = {"A", "B", "C"}

(***************************************************************************)
(* Properties of Pipeline.run().                                           *)
(***************************************************************************)
\* the 0-based positions of the stages whose agent raises
FailingPositions(ss) == {k \in 0..(Len(ss) - 1) : ss[k + 1].agent = "failing"}

\* the least one
FirstFailing(ss) ==
    CHOOSE k \in FailingPositions(ss) : \A j \in FailingPositions(ss) : k <= j

\* the agents were called for the positions 0..n-1, once each, in this order
CalledUpTo(n) ==
    /\ Len(stage_calls) = n
    /\ \A k \in 1..n : stage_calls[k].position = k - 1

\* the entry under name is what the agent of one of the positions in ks returned
ResponseOfOneOf(by_stage, name, ks) ==
    \E k \in ks :
        /\ stages[k + 1].name = name
        /\ stages[k + 1].agent = "mock"
        /\ k + 1 <= Len(stage_calls)
        /\ by_stage[name].content =
              <<TextContent("mock response: "
                            \o Prefix(stage_calls[k + 1].query, QueryShown))>>

\* C21: with stop_on_error set, when the agent of the stage at position i
\* raises, run() returns at once with success false, failed_stage the name of
\* that stage, stages_completed = i, error set, stage_responses holding only
\* the stages before i, and no agent of a later stage is invoked
C21_StopsAtFailedStage ==
    (stop_on_error /\ FailingPositions(stages) # {}) =>
        LET i == FirstFailing(stages) IN
        /\ pipeline_pc = "running" => (stage_index <= i /\ CalledUpTo(stage_index))
        /\ pipeline_pc = "returned" =>
              /\ CalledUpTo(i + 1)
              /\ stage_index = i
              /\ pipeline_result[1].success = FALSE
              /\ pipeline_result[1].failed_stage = <<stages[i + 1].name>>
              /\ pipeline_result[1].stages_completed = i
              /\ pipeline_result[1].error = <<"Agent failed">>
              /\ DOMAIN pipeline_result[1].stage_responses
                    = {stages[k + 1].name : k \in 0..(i - 1)}
              /\ \A n \in DOMAIN pipeline_result[1].stage_responses :
                    ResponseOfOneOf(pipeline_result[1].stage_responses, n, 0..(i - 1))

\* a failing second stage of three, the first one having answered
C21_Witness ==
    /\ stop_on_error
    /\ pipeline_pc = "returned"
    /\ Len(stages) = 3
    /\ FailingPositions(stages) = {1}
    /\ pipeline_result[1].stages_completed = 1
    /\ Len(stage_calls) = 2

\* the 0-based positions of the stages whose agent answers
AnsweringPositions(ss) == {k \in 0..(Len(ss) - 1) : ss[k + 1].agent = "mock"}

\* C22: with stop_on_error unset, a stage whose agent raises is skipped (it
\* records no response: the entries of stage_responses are those of the
\* stages that answered), every later stage is still run, and run() ends with
\* success true, failed_stage unset and stages_completed = number of stages,
\* whatever number of stages failed
C22_ContinuesPastFailedStages ==
    ~stop_on_error =>
        /\ pipeline_pc = "running" => CalledUpTo(stage_index)
        /\ pipeline_pc = "returned" =>
              /\ CalledUpTo(Len(stages))
              /\ pipeline_result[1].success = TRUE
              /\ pipeline_result[1].failed_stage = <<>>
              /\ pipeline_result[1].stages_completed = Len(stages)
              /\ DOMAIN pipeline_result[1].stage_responses
                    = {stages[k + 1].name : k \in AnsweringPositions(stages)}
              /\ \A n \in DOMAIN pipeline_result[1].stage_responses :
                    ResponseOfOneOf(pipeline_result[1].stage_responses, n,
                                    AnsweringPositions(stages))

\* three stages with distinct names, the second and the third failing
C22_Witness ==
    /\ ~stop_on_error
    /\ pipeline_pc = "returned"
    /\ Len(stages) = 3
    /\ FailingPositions(stages) = {1, 2}
    /\ Cardinality({stages[k].name : k \in 1..3}) = 3
    /\ Len(stage_calls) = 3
    /\ DOMAIN pipeline_result[1].stage_responses = {stages[1].name}
    /\ pipeline_result[1].success

\* the calls, among the first n, that were answered
AnsweredCalls(n) == {k \in 1..n : stages[stage_calls[k].position + 1].agent = "mock"}

\* the Response of the latest answered call among the first n
PreviousResponse(n) ==
    LET k == CHOOSE j \in AnsweredCalls(n) : \A m \in AnsweredCalls(n) : m <= j
    IN  MockAgentRun("mock", stage_calls[k].query).response

\* the query the n-th call is to be given: the transform of the initial query
\* and the previous response, else the initial query or the previous
\* response's text
QueryDue(n) ==
    IF AnsweredCalls(n - 1) = {} THEN initial_query
    ELSE IF stages[stage_calls[n].position + 1].transform # "None"
    THEN "TRANSFORM: " \o get_text(PreviousResponse(n - 1))
    ELSE get_text(PreviousResponse(n - 1))

\* C31: the stages are run in insertion order, and the query given to a
\* stage is transform(initial_query, previous_response) when the stage has a
\* transform and a previous response exists; otherwise it is initial_query
\* when no stage has answered yet and the text of the previous response
\* afterwards, also after a skipped failing stage.
C31_StageQueries ==
    \A n \in 1..Len(stage_calls) :
        /\ stage_calls[n].position = n - 1
        /\ stage_calls[n].query = QueryDue(n)

(***************************************************************************)
(* Properties of Router.                                                   *)
(***************************************************************************)
\* the rules of one priority, in the order they have in rs
OfPriority(rs, priority) ==
    LET Has(rule) == rule.priority = priority IN SelectSeq(rs, Has)

\* the accepted rules that match q, as positions in the order of the calls
MatchingInserted(q) == {i \in 1..Len(inserted) : Matches(inserted[i], q)}

\* among them the one of highest priority, the earliest registered of its equals
Best(q) ==
    CHOOSE i \in MatchingInserted(q) :
        \A j \in MatchingInserted(q) :
            \/ inserted[j].priority < inserted[i].priority
            \/ (inserted[j].priority = inserted[i].priority /\ i <= j)

\* C23: after any sequence of add_route calls the rules are ordered by
\* descending priority, equal priorities in insertion order; when several
\* rules match, route() and get_route() select the matching rule of highest
\* priority whatever the registration order, the earliest registered among
\* equal priorities
C23_HighestPriorityFirst ==
    /\ Len(routes) = Len(inserted)
    /\ \A i, j \in 1..Len(routes) : i < j => routes[i].priority >= routes[j].priority
    /\ \A priority \in Priorities :
          OfPriority(routes, priority) = OfPriority(inserted, priority)
    /\ \A k \in 1..Len(routed) :
          MatchingInserted(routed[k].query) # {} =>
              LET rule == inserted[Best(routed[k].query)] IN
              /\ routed[k].outcome.ran = <<rule.agent>>
              /\ ~routed[k].outcome.raised =>
                    /\ routed[k].outcome.result[1].matched_rule = <<rule.name>>
                    /\ routed[k].outcome.result[1].agent_name = rule.name
    /\ \A k \in 1..Len(looked_up) :
          MatchingInserted(looked_up[k].query) # {} =>
              looked_up[k].name = <<inserted[Best(looked_up[k].query)].name>>

\* a rule of priority 0 registered before one of priority 10 under another
\* name, both matching the query: route() answers with the second
C23_Witness ==
    /\ Len(inserted) = 2
    /\ inserted[1].priority = 0
    /\ inserted[2].priority = 10
    /\ inserted[1].name # inserted[2].name
    /\ routed # <<>>
    /\ MatchingInserted(routed[1].query) = {1, 2}
    /\ ~routed[1].outcome.raised
    /\ routed[1].outcome.result[1].matched_rule = <<inserted[2].name>>

\* rule i is the first of the sorted rules that matches q
IsFirstMatch(i, q) ==
    /\ i \in 1..Len(routes)
    /\ Matches(routes[i], q)
    /\ \A j \in 1..(i - 1) : ~Matches(routes[j], q)

NoMatch(q) == \A i \in 1..Len(routes) : ~Matches(routes[i], q)

\* a default agent is configured and an agent was registered under its name
DefaultPresent == default_agent # <<>> /\ default_agent[1] \in DOMAIN agents

\* what MockAgent answers to q
Answer(q) == <<TextContent("mock response: " \o Prefix(q, QueryShown))>>

\* the call ran this agent alone, and returned this RouteResult if the
\* agent answered
RanOnly(call, agent, q, agent_name, matched_rule) ==
    /\ call.ran = <<agent>>
    /\ agent = "mock" =>
          /\ ~call.raised
          /\ call.result[1].agent_name = agent_name
          /\ call.result[1].matched_rule = matched_rule
          /\ call.result[1].response.content = Answer(q)

\* C24: route(query) runs exactly one agent or none: on the first matching
\* rule only that rule's agent, returning {agent_name, response, matched_rule
\* = rule name}; when no rule matches and a default agent is configured and
\* present only the default agent, returning matched_rule None; otherwise no
\* agent, and it raises with the configured fallback message
C24_RouteRunsOneAgentOrNone ==
    \A k \in 1..Len(routed) :
        LET q == routed[k].query
            call == routed[k].outcome
        IN  /\ Len(call.ran) <= 1
            /\ \A i \in 1..Len(routes) :
                  IsFirstMatch(i, q) =>
                      RanOnly(call, routes[i].agent, q, routes[i].name,
                              <<routes[i].name>>)
            /\ (NoMatch(q) /\ DefaultPresent) =>
                  RanOnly(call, agents[default_agent[1]], q, default_agent[1], <<>>)
            /\ (NoMatch(q) /\ ~DefaultPresent) =>
                  /\ call.ran = <<>>
                  /\ call.raised
                  /\ call.fault = "ValueError: " \o fallback_message

\* rules are registered, none matches the query, and the default agent answers
C24_Witness ==
    /\ routed # <<>>
    /\ routes # <<>>
    /\ NoMatch(routed[1].query)
    /\ DefaultPresent
    /\ ~routed[1].outcome.raised
    /\ routed[1].outcome.result[1].matched_rule = <<>>
    /\ routed[1].outcome.result[1].agent_name = default_agent[1]
    /\ Len(routed[1].outcome.ran) = 1

\* C25: add_route accepts a rule only when exactly one of keywords, pattern
\* and condition is given: it raises when none is given and also when two or
\* more are given
C25_ExactlyOneSource ==
    \A k \in 1..Len(add_call) : add_call[k].raised <=> add_call[k].given # 1

\* C26: get_route(query) resolves as route(query) does, without running an
\* agent: it returns the agent_name route returns, and None exactly when
\* route raises the no-route fault
C26_GetRouteAgreesWithRoute ==
    \A k \in 1..Len(routed), n \in 1..Len(looked_up) :
        routed[k].query = looked_up[n].query =>
            /\ ~routed[k].outcome.raised =>
                  looked_up[n].name = <<routed[k].outcome.result[1].agent_name>>
            /\ looked_up[n].name = <<>> <=>
                  (/\ routed[k].outcome.raised
                   /\ routed[k].outcome.fault = "ValueError: " \o fallback_message)

\* C27: route() raises only when no rule matches and no default agent is
\* available; in every other outcome, a failure of the selected agent
\* included, the caller receives a RouteResult and no fault is raised
C27_RouteRaisesOnlyNoRoute ==
    \A k \in 1..Len(routed) :
        LET q == routed[k].query IN
        /\ routed[k].outcome.raised => (NoMatch(q) /\ ~DefaultPresent)
        /\ ~routed[k].outcome.raised => Len(routed[k].outcome.result) = 1

\* the names of the rules add_route accepted
AcceptedNames == {inserted[i].name : i \in 1..Len(inserted)}

\* C39: an add_route call that raises for lack of a predicate source leaves
\* the Router as it was: the rule list and the name-to-agent map hold the
\* accepted rules only, and a later route() runs no agent that was given in
\* a rejected call, not even as the configured default agent
C39_RejectedRouteLeavesRouterUnchanged ==
    /\ Len(routes) = Len(inserted)
    /\ DOMAIN agents = AcceptedNames
    /\ \A k \in 1..Len(routed) :
           routed[k].outcome.ran # <<>> =>
               \E i \in 1..Len(inserted) : inserted[i].agent = routed[k].outcome.ran[1]
====
